---------------------------- MODULE Spec2Model ----------------------------
(***************************************************************************)
(* A model of the ChatMe backend (src-tauri): the agent action runtime     *)
(* (agentic.rs), the permission policy and the OS collaborators            *)
(* (system_operations.rs, file_operations.rs), the tauri commands          *)
(* (commands.rs) and the streaming completion pipeline (database.rs).      *)
(*                                                                         *)
(* Rust strings are TLA+ strings; TLC evaluates Len, \o and SubSeq on      *)
(* them, so substring search, prefix tests and lower-casing are computed   *)
(* character by character as the code computes them.                       *)
(***************************************************************************)
EXTENDS Integers, Sequences, FiniteSets, TLC

(***************************************************************************)
(* Bounds of the model.                                                    *)
(***************************************************************************)
\* Commands invoked in one run (dispatches and direct commands together).
MaxCalls == 2

(***************************************************************************)
(* Strings.                                                                *)
(***************************************************************************)
Min(a, b) == IF a <= b THEN a ELSE b

UpperLetters == "ABCDEFGHIJKLMNOPQRSTUVWXYZ"
LowerLetters == "abcdefghijklmnopqrstuvwxyz"

CharAt(s, i) == SubSeq(s, i, i)

\* char::to_lowercase on the ASCII range (the model's alphabet is ASCII).
LowerTable ==
    [c \in {CharAt(UpperLetters, i) : i \in 1..Len(UpperLetters)} |->
        CharAt(LowerLetters, CHOOSE i \in 1..Len(UpperLetters) : CharAt(UpperLetters, i) = c)]
LowerChar(c) == IF c \in DOMAIN LowerTable THEN LowerTable[c] ELSE c

UpperTable ==
    [c \in {CharAt(LowerLetters, i) : i \in 1..Len(LowerLetters)} |->
        CharAt(UpperLetters, CHOOSE i \in 1..Len(LowerLetters) : CharAt(LowerLetters, i) = c)]
UpperChar(c) == IF c \in DOMAIN UpperTable THEN UpperTable[c] ELSE c

RECURSIVE to_lowercase(_)
to_lowercase(s) ==
    IF s = "" THEN "" ELSE LowerChar(CharAt(s, 1)) \o to_lowercase(SubSeq(s, 2, Len(s)))

RECURSIVE to_uppercase(_)
to_uppercase(s) ==
    IF s = "" THEN "" ELSE UpperChar(CharAt(s, 1)) \o to_uppercase(SubSeq(s, 2, Len(s)))

\* str::contains(pattern)
contains(s, p) ==
    \E i \in 1..(Len(s) - Len(p) + 1) : SubSeq(s, i, i + Len(p) - 1) = p

\* str::starts_with(prefix)
starts_with(s, p) == Len(p) <= Len(s) /\ SubSeq(s, 1, Len(p)) = p

ends_with(s, p) == Len(p) <= Len(s) /\ SubSeq(s, Len(s) - Len(p) + 1, Len(s)) = p

Digits == "0123456789"

\* u64 / u32 Display
RECURSIVE NatToString(_)
NatToString(n) ==
    IF n < 10 THEN CharAt(Digits, n + 1)
    ELSE NatToString(n \div 10) \o CharAt(Digits, (n % 10) + 1)

IntToString(n) == IF n < 0 THEN "-" \o NatToString(0 - n) ELSE NatToString(n)

\* Option<String>
None == [some |-> FALSE, s |-> ""]
Some(s) == [some |-> TRUE, s |-> s]

(***************************************************************************)
(* serde_json::Value, restricted to the scalar kinds the handlers read.    *)
(* Every value carries all fields so that values of different kinds can    *)
(* be compared.  JAbsent is Option::None of an Option<Value>.              *)
(***************************************************************************)
JStr(s)  == [t |-> "string", s |-> s,  n |-> 0, b |-> FALSE, a |-> <<>>]
JNum(n)  == [t |-> "number", s |-> "", n |-> n, b |-> FALSE, a |-> <<>>]
JBool(b) == [t |-> "bool",   s |-> "", n |-> 0, b |-> b,     a |-> <<>>]
JNull    == [t |-> "null",   s |-> "", n |-> 0, b |-> FALSE, a |-> <<>>]
\* An array of scalar values.
JArr(a)  == [t |-> "array",  s |-> "", n |-> 0, b |-> FALSE, a |-> a]
JAbsent  == [t |-> "absent", s |-> "", n |-> 0, b |-> FALSE, a |-> <<>>]
\* A structured value produced by a collaborator (serde_json::to_value of a
\* DirectoryContents, CommandResult, ...), named by what it holds.
JObj(s)  == [t |-> "object", s |-> s,  n |-> 0, b |-> FALSE, a |-> <<>>]

\* HashMap::get
Has(params, k) == k \in DOMAIN params
\* params.get(k).and_then(|v| v.as_str()) is Some
HasStr(params, k) == Has(params, k) /\ params[k].t = "string"
\* params.get(k).and_then(|v| v.as_bool()).unwrap_or(d)
BoolOr(params, k, d) == IF Has(params, k) /\ params[k].t = "bool" THEN params[k].b ELSE d
\* params.get(k).and_then(|v| v.as_u64()) is Some: a non-negative integer
HasU64(params, k) == Has(params, k) /\ params[k].t = "number" /\ params[k].n >= 0

\* impl Display for serde_json::Value (compact JSON text)
ScalarToString(v) ==
    CASE v.t = "string" -> "\"" \o v.s \o "\""
      [] v.t = "number" -> IntToString(v.n)
      [] v.t = "bool"   -> (IF v.b THEN "true" ELSE "false")
      [] OTHER          -> "null"

RECURSIVE ItemsToString(_)
ItemsToString(a) ==
    IF a = <<>> THEN ""
    ELSE IF Len(a) = 1 THEN ScalarToString(a[1])
    ELSE ScalarToString(a[1]) \o "," \o ItemsToString(Tail(a))

JsonToString(v) ==
    IF v.t = "array" THEN "[" \o ItemsToString(v.a) \o "]" ELSE ScalarToString(v)

\* The empty HashMap, and HashMap::insert
EmptyMap == [k \in {} |-> ""]
Insert(m, k, v) == [x \in (DOMAIN m) \cup {k} |-> IF x = k THEN v ELSE m[x]]
\* The parameter maps json!({"path": p}), {"command": c}, {"pid": v}
Path(p) == "path" :> JStr(p)
Cmd(c) == "command" :> JStr(c)
Pid(v) == "pid" :> v
FileOp(t, src) == ("operation_type" :> JStr(t)) @@ ("source" :> JStr(src))

(***************************************************************************)
(* PermissionPolicy: check_permission_level (system_operations.rs).        *)
(***************************************************************************)
Safe == "Safe"
Moderate == "Moderate"
Dangerous == "Dangerous"

dangerous_patterns ==
    <<"rm -rf", "del /f", "format", "fdisk", "dd if=", "sudo", "admin", "registry", "regedit">>

\* A policy that matches the denylist against the command as typed.
is_dangerous_as_typed(cmd) ==
    \E i \in 1..Len(dangerous_patterns) : contains(cmd, dangerous_patterns[i])

is_dangerous(cmd) ==
    LET lower == to_lowercase(cmd)
    IN  \E i \in 1..Len(dangerous_patterns) : contains(lower, dangerous_patterns[i])

system_dirs ==
    <<"C:\\Windows", "C:\\Program Files", "/usr", "/bin", "/etc", "/System", "/Library", "/Applications">>

is_system(path) ==
    \E i \in 1..Len(system_dirs) : starts_with(path, system_dirs[i])

permission_execute_command(params) ==
    IF HasStr(params, "command")
    THEN [operation   |-> "Execute Terminal Command",
          description |-> "Execute command: " \o params["command"].s,
          level       |-> IF is_dangerous(params["command"].s) THEN Dangerous ELSE Moderate,
          details     |-> Insert(EmptyMap, "command", params["command"].s)]
    ELSE [operation   |-> "Execute Terminal Command",
          description |-> "Execute unknown command",
          level       |-> Dangerous,
          details     |-> EmptyMap]

permission_launch_app(params) ==
    IF HasStr(params, "path")
    THEN [operation   |-> "Launch Application",
          description |-> "Launch application: " \o params["path"].s,
          level       |-> Moderate,
          details     |-> Insert(EmptyMap, "application", params["path"].s)]
    ELSE [operation   |-> "Launch Application",
          description |-> "Launch unknown application",
          level       |-> Moderate,
          details     |-> EmptyMap]

permission_delete(params) ==
    IF HasStr(params, "path")
    THEN [operation   |-> "Delete File/Directory",
          description |-> "Delete: " \o params["path"].s,
          level       |-> IF is_system(params["path"].s) THEN Dangerous ELSE Moderate,
          details     |-> Insert(EmptyMap, "path", params["path"].s)]
    ELSE [operation   |-> "Delete File/Directory",
          description |-> "Delete unknown path",
          level       |-> Dangerous,
          details     |-> EmptyMap]

\* A policy that takes only a missing pid to be Dangerous.
permission_kill_process_by_pid(params) ==
    IF Has(params, "pid")
    THEN [operation   |-> "Kill Process",
          description |-> "Terminate process with PID: " \o JsonToString(params["pid"]),
          level       |-> Moderate,
          details     |-> Insert(EmptyMap, "pid", JsonToString(params["pid"]))]
    ELSE [operation   |-> "Kill Process",
          description |-> "Terminate unknown process",
          level       |-> Dangerous,
          details     |-> EmptyMap]

permission_kill_process(params) ==
    IF Has(params, "pid")
    THEN [operation   |-> "Kill Process",
          description |-> "Terminate process with PID: " \o JsonToString(params["pid"]),
          level       |-> Dangerous,
          details     |-> Insert(EmptyMap, "pid", JsonToString(params["pid"]))]
    ELSE [operation   |-> "Kill Process",
          description |-> "Terminate unknown process",
          level       |-> Dangerous,
          details     |-> EmptyMap]

check_permission_level(operation, params) ==
    CASE operation = "execute_command" -> permission_execute_command(params)
      [] operation = "launch_app" -> permission_launch_app(params)
      [] operation \in {"delete_file", "delete_directory"} -> permission_delete(params)
      [] operation = "kill_process" -> permission_kill_process(params)
      [] OTHER ->
           [operation   |-> operation,
            description |-> "Unknown operation",
            level       |-> Safe,
            details     |-> EmptyMap]

(***************************************************************************)
(* The filesystem the file collaborators act on: a closed world of paths.  *)
(* A node is absent, a directory or a file with its contents.  Paths       *)
(* outside FsPaths do not exist and cannot be created.  The build modelled *)
(* is the Linux one (cfg!(target_os) selects sh, kill and ps).            *)
(***************************************************************************)
\* The character that stands for the byte 0 in file contents.
NUL == "~"

RECURSIVE Repeat(_, _)
Repeat(s, n) ==
    IF n = 0 THEN ""
    ELSE LET h == Repeat(s, n \div 2) IN IF n % 2 = 0 THEN h \o h ELSE h \o h \o s

NoNode == [kind |-> "none", content |-> ""]
DirNode == [kind |-> "dir", content |-> ""]
FileNode(c) == [kind |-> "file", content |-> c]

FsPaths ==
    {"/", "/tmp", "/tmp/a.txt", "/tmp/b.png", "/tmp/new", "/tmp/new/c.txt",
     "/etc", "/etc/hosts", "/nope"}

InitFs ==
    [p \in FsPaths |->
        CASE p \in {"/", "/tmp", "/etc"} -> DirNode
          [] p = "/tmp/a.txt" -> FileNode("hello")
          [] p = "/etc/hosts" -> FileNode("127.0.0.1 localhost")
          [] OTHER -> NoNode]

\* std::env::current_dir() of the process: relative paths resolve against it.
ProcessCwd == "/tmp"
Resolve(p) ==
    IF starts_with(p, "/") THEN p
    ELSE IF p = "." \/ p = "" THEN ProcessCwd
    ELSE ProcessCwd \o "/" \o p

Node(f, p) == IF Resolve(p) \in DOMAIN f THEN f[Resolve(p)] ELSE NoNode
\* Path::exists, Path::is_file, Path::is_dir
exists(f, p) == Node(f, p).kind # "none"
is_file(f, p) == Node(f, p).kind = "file"
is_dir(f, p) == Node(f, p).kind = "dir"

RECURSIVE LastIndexBefore(_, _, _)
LastIndexBefore(s, c, i) ==
    IF i = 0 THEN 0
    ELSE IF CharAt(s, i) = c THEN i
    ELSE LastIndexBefore(s, c, i - 1)
LastIndexOf(s, c) == LastIndexBefore(s, c, Len(s))

\* Path::parent: None for the root, "" for a bare file name.
HasParent(p) == p # "/" /\ p # ""
Parent(p) ==
    LET i == LastIndexOf(p, "/")
    IN  IF i = 0 THEN "" ELSE IF i = 1 THEN "/" ELSE SubSeq(p, 1, i - 1)

\* Path::file_name of a path with no trailing separator
FileName(p) == SubSeq(p, LastIndexOf(p, "/") + 1, Len(p))

\* Path::extension: the part of the file name after its last dot, when the
\* name has a dot that is not its first character.
extension(p) ==
    LET name == FileName(p)
        i == LastIndexOf(name, ".")
    IN  IF i <= 1 \/ name = ".." THEN None ELSE Some(SubSeq(name, i + 1, Len(name)))

\* p is d or lies below d
Under(p, d) == p = d \/ starts_with(p, IF d = "/" THEN "/" ELSE d \o "/")

binary_extensions ==
    <<"exe", "dll", "so", "dylib", "bin", "dat", "db", "sqlite", "sqlite3",
      "jpg", "jpeg", "png", "gif", "bmp", "ico", "webp", "svg",
      "mp3", "wav", "flac", "ogg", "mp4", "avi", "mkv", "mov",
      "zip", "rar", "7z", "tar", "gz", "bz2", "xz",
      "pdf", "doc", "docx", "xls", "xlsx", "ppt", "pptx">>

\* metadata.len() above which a file is taken to be text without a look
LargeFileLen == 8192
\* bytes of the head of a file searched for a zero byte
SniffLen == 512

has_binary_extension(p) ==
    LET ext == extension(p)
    IN  /\ ext.some
        /\ LET ext_str == to_lowercase(ext.s)
           IN  \E i \in 1..Len(binary_extensions) : binary_extensions[i] = ext_str

\* is_binary_file of an existing file (its metadata and open succeed)
is_binary_file(f, p) ==
    IF has_binary_extension(p) THEN TRUE
    ELSE IF Len(Node(f, p).content) > LargeFileLen THEN FALSE
    ELSE contains(SubSeq(Node(f, p).content, 1, Min(SniffLen, Len(Node(f, p).content))), NUL)

\* A collaborator's outcome: Ok(val) or Err(err), the filesystem it leaves
\* and the OS-level calls it made.
Ok(val, f, log) == [ok |-> TRUE, val |-> val, err |-> "", fs |-> f, log |-> log]
Err(err, f, log) == [ok |-> FALSE, val |-> JAbsent, err |-> err, fs |-> f, log |-> log]
Sys(op, arg) == [op |-> op, arg |-> arg]

read_file_contents(f, file_path) ==
    IF ~exists(f, file_path) THEN Err("File does not exist: " \o file_path, f, <<>>)
    ELSE IF ~is_file(f, file_path) THEN Err("Path is not a file: " \o file_path, f, <<>>)
    ELSE IF is_binary_file(f, file_path)
         THEN Err("Cannot read binary file as text: " \o file_path, f, <<>>)
    ELSE Ok(JStr(Node(f, file_path).content), f, <<Sys("fs::read_to_string", file_path)>>)

\* fs::create_dir_all: every missing ancestor is created; it fails when the
\* path or an ancestor is a file, or cannot be created.  create_dir_all("")
\* is Ok and creates nothing.
create_dir_all_ok(f, d) ==
    \/ d = ""
    \/ /\ Resolve(d) \in DOMAIN f
       /\ \A a \in DOMAIN f : Under(Resolve(d), a) => ~is_file(f, a)
create_dir_all(f, d) ==
    IF d = "" THEN f
    ELSE [p \in DOMAIN f |-> IF Under(Resolve(d), p) /\ ~exists(f, p) THEN DirNode ELSE f[p]]

\* fs::write, fs::copy to a path: its parent must be a directory and the
\* path itself not one.
fs_write_ok(f, p) ==
    /\ Resolve(p) \in DOMAIN f
    /\ ~is_dir(f, p)
    /\ HasParent(Resolve(p)) /\ is_dir(f, Parent(Resolve(p)))

\* A write that opens the file for appending instead of truncating it.
write_file_contents_append(f, file_path, contents) ==
    LET mk == IF HasParent(file_path) THEN <<Sys("fs::create_dir_all", Parent(file_path))>> ELSE <<>>
        f1 == IF HasParent(file_path) THEN create_dir_all(f, Parent(file_path)) ELSE f
    IN  IF HasParent(file_path) /\ ~create_dir_all_ok(f, Parent(file_path))
        THEN Err("Failed to create parent directories: Not a directory (os error 20)", f, mk)
        ELSE IF ~fs_write_ok(f1, file_path)
        THEN Err("Failed to write file: Is a directory (os error 21)", f1,
                 mk \o <<Sys("fs::write", file_path)>>)
        ELSE Ok(JNull, [f1 EXCEPT ![Resolve(file_path)] =
                            FileNode(Node(f1, file_path).content \o contents)],
                mk \o <<Sys("fs::write", file_path)>>)

write_file_contents(f, file_path, contents) ==
    LET mk == IF HasParent(file_path) THEN <<Sys("fs::create_dir_all", Parent(file_path))>> ELSE <<>>
        f1 == IF HasParent(file_path) THEN create_dir_all(f, Parent(file_path)) ELSE f
    IN  IF HasParent(file_path) /\ ~create_dir_all_ok(f, Parent(file_path))
        THEN Err("Failed to create parent directories: Not a directory (os error 20)", f, mk)
        ELSE IF ~fs_write_ok(f1, file_path)
        THEN Err("Failed to write file: Is a directory (os error 21)", f1,
                 mk \o <<Sys("fs::write", file_path)>>)
        ELSE Ok(JNull, [f1 EXCEPT ![Resolve(file_path)] = FileNode(contents)],
                mk \o <<Sys("fs::write", file_path)>>)

open_with_default_app(f, path, os) ==
    IF ~exists(f, path) THEN Err("Path does not exist: " \o path, f, <<>>)
    ELSE IF ~os THEN Err("Failed to open file with default app: launcher failed", f,
                         <<Sys("opener::open", path)>>)
    ELSE Ok(JNull, f, <<Sys("opener::open", path)>>)

\* The listing itself (names, sizes, times) is left to the collaborator.
read_directory_contents(f, directory_path, recursive) ==
    IF ~exists(f, directory_path) THEN Err("Directory does not exist: " \o directory_path, f, <<>>)
    ELSE IF ~is_dir(f, directory_path)
         THEN Err("Path is not a directory: " \o directory_path, f, <<>>)
    ELSE Ok(JObj("DirectoryContents"), f, <<Sys("fs::read_dir", directory_path)>>)

\* RegexBuilder::build on the model's patterns, which are made of literal
\* characters and parentheses: it fails on unbalanced parentheses.
regex_ok(pattern) ==
    Cardinality({i \in 1..Len(pattern) : CharAt(pattern, i) = "("})
        = Cardinality({i \in 1..Len(pattern) : CharAt(pattern, i) = ")"})

\* The matches themselves are left to the collaborator.
search_in_files(f, directory_path, pattern) ==
    IF ~exists(f, directory_path) \/ ~is_dir(f, directory_path)
    THEN Err("Invalid directory path: " \o directory_path, f, <<>>)
    ELSE IF ~regex_ok(pattern)
         THEN Err("Invalid regex pattern: regex parse error", f, <<>>)
    ELSE Ok(JObj("Vec<SearchResult>"), f, <<Sys("WalkDir", directory_path)>>)

(***************************************************************************)
(* System collaborators (system_operations.rs).  os says whether the       *)
(* operating system carries out the spawn the collaborator asks for.       *)
(***************************************************************************)
launch_application(f, app_path, os) ==
    IF ~exists(f, app_path) THEN Err("Application path does not exist: " \o app_path, f, <<>>)
    ELSE IF ~os THEN Err("Permission denied (os error 13)", f, <<Sys("spawn", app_path)>>)
    ELSE Ok(JObj("pid"), f, <<Sys("spawn", app_path)>>)

get_installed_applications(f) == Ok(JObj("Vec<AppInfo>"), f, <<Sys("fs::read_dir", "/usr/share/applications")>>)

\* The denylist execute_terminal_command applies by itself.
dangerous_commands ==
    <<"rm -rf /", "format", "del /f", "deltree", "dd if=/dev/zero", "mkfs", "fdisk">>

command_blocked(command) ==
    LET lower == to_lowercase(command)
    IN  \E i \in 1..Len(dangerous_commands) : contains(lower, dangerous_commands[i])

\* A shell collaborator that spawns where the process is, whatever
\* directory it is given.
execute_terminal_command_in_place(f, command, working_dir, os) ==
    IF command_blocked(command)
    THEN Err("Command blocked: potentially dangerous operation detected", f, <<>>)
    ELSE IF ~os
         THEN Err("No such file or directory (os error 2)", f, <<>>)
    ELSE Ok(JObj("CommandResult"), f, <<Sys("sh -c", command)>>)

\* The commands of the model leave the modelled paths alone.  The spawn
\* fails when the working directory is no directory; cmd.current_dir(dir)
\* is recorded before the spawn.
execute_terminal_command(f, command, working_dir, os) ==
    IF command_blocked(command)
    THEN Err("Command blocked: potentially dangerous operation detected", f, <<>>)
    ELSE IF ~os \/ (working_dir.some /\ ~is_dir(f, working_dir.s))
         THEN Err("No such file or directory (os error 2)", f, <<>>)
    ELSE Ok(JObj("CommandResult"), f,
            (IF working_dir.some THEN <<Sys("current_dir", working_dir.s)>> ELSE <<>>)
            \o <<Sys("sh -c", command)>>)

get_running_processes(f, os) ==
    IF ~os THEN Err("No such file or directory (os error 2)", f, <<>>)
    ELSE Ok(JObj("Vec<ProcessInfo>"), f, <<Sys("ps", "aux")>>)

kill_process(f, pid, os) ==
    IF ~os THEN Err("No such file or directory (os error 2)", f, <<>>)
    ELSE Ok(JNull, f, <<Sys("kill -9", NatToString(pid))>>)

\* The path that stands below dst where p stands below src.
Rebase(p, src, dst) == dst \o SubSeq(p, Len(src) + 1, Len(p))

\* The tree at src laid over dst (fs::copy of a file, copy_dir_recursive of
\* a directory), within the closed world of paths.
copy_tree(f, src, dst) ==
    [p \in DOMAIN f |->
        IF Under(p, dst) /\ exists(f, Rebase(p, dst, src)) THEN f[Rebase(p, dst, src)] ELSE f[p]]

remove_tree(f, src) == [p \in DOMAIN f |-> IF Under(p, src) THEN NoNode ELSE f[p]]

dir_empty(f, d) == \A p \in DOMAIN f : (Under(p, d) /\ p # d) => ~exists(f, p)

\* The destination of a copy or a rename can be written.
dest_ok(f, src, dst) ==
    /\ dst \in DOMAIN f /\ HasParent(dst) /\ is_dir(f, Parent(dst))
    /\ ~Under(dst, src)
    /\ exists(f, dst) => (Node(f, dst).kind = Node(f, src).kind /\ dir_empty(f, dst))

fs_rename(f, source, dest, what) ==
    LET src == Resolve(source)
        dst == Resolve(dest)
    IN  IF ~exists(f, src) \/ ~dest_ok(f, src, dst)
        THEN Err("No such file or directory (os error 2)", f, <<Sys("fs::rename", source)>>)
        ELSE Ok(JStr(what \o " " \o source \o " to " \o dest),
                remove_tree(copy_tree(f, src, dst), src), <<Sys("fs::rename", source)>>)

\* operation: [operation_type, source, destination (Option<String>), recursive]
perform_file_operation(f, operation) ==
    LET source == operation.source
        src == Resolve(source)
        dest == operation.destination
    IN  CASE operation.operation_type = "Copy" ->
               IF ~dest.some THEN Err("Destination required for copy operation", f, <<>>)
               ELSE IF is_file(f, src)
                    THEN IF fs_write_ok(f, dest.s)
                         THEN Ok(JStr("Copied " \o source \o " to " \o dest.s),
                                 [f EXCEPT ![Resolve(dest.s)] = f[src]], <<Sys("fs::copy", source)>>)
                         ELSE Err("No such file or directory (os error 2)", f,
                                  <<Sys("fs::copy", source)>>)
               ELSE IF is_dir(f, src) /\ operation.recursive
                    THEN IF create_dir_all_ok(f, dest.s) /\ ~Under(Resolve(dest.s), src)
                         THEN Ok(JStr("Copied " \o source \o " to " \o dest.s),
                                 copy_tree(create_dir_all(f, dest.s), src, Resolve(dest.s)),
                                 <<Sys("copy_dir_recursive", source)>>)
                         ELSE Err("No such file or directory (os error 2)", f,
                                  <<Sys("copy_dir_recursive", source)>>)
               ELSE Err("Source is a directory but recursive flag is not set", f, <<>>)
          [] operation.operation_type = "Move" ->
               IF ~dest.some THEN Err("Destination required for move operation", f, <<>>)
               ELSE fs_rename(f, source, dest.s, "Moved")
          [] operation.operation_type = "Delete" ->
               IF is_file(f, src)
               THEN Ok(JStr("Deleted " \o source), remove_tree(f, src), <<Sys("fs::remove_file", source)>>)
               ELSE IF is_dir(f, src)
                    THEN IF operation.recursive
                         THEN Ok(JStr("Deleted " \o source), remove_tree(f, src),
                                 <<Sys("fs::remove_dir_all", source)>>)
                         ELSE IF dir_empty(f, src)
                              THEN Ok(JStr("Deleted " \o source), remove_tree(f, src),
                                      <<Sys("fs::remove_dir", source)>>)
                              ELSE Err("Directory not empty (os error 39)", f,
                                       <<Sys("fs::remove_dir", source)>>)
               ELSE Ok(JStr("Deleted " \o source), f, <<>>)
          [] operation.operation_type = "CreateDirectory" ->
               IF operation.recursive
               THEN IF create_dir_all_ok(f, source)
                    THEN Ok(JStr("Created directory " \o source), create_dir_all(f, source),
                            <<Sys("fs::create_dir_all", source)>>)
                    ELSE Err("Not a directory (os error 20)", f, <<Sys("fs::create_dir_all", source)>>)
               ELSE IF src \in DOMAIN f /\ ~exists(f, src) /\ HasParent(src) /\ is_dir(f, Parent(src))
                    THEN Ok(JStr("Created directory " \o source), [f EXCEPT ![src] = DirNode],
                            <<Sys("fs::create_dir", source)>>)
                    ELSE Err("File exists (os error 17)", f, <<Sys("fs::create_dir", source)>>)
          [] OTHER ->
               IF ~dest.some THEN Err("New name required for rename operation", f, <<>>)
               ELSE fs_rename(f, source, dest.s, "Renamed")

(***************************************************************************)
(* AgentSession (agentic.rs): the handlers and the dispatcher.             *)
(***************************************************************************)
\* A handler's outcome: the collaborator's, with the session's working
\* directory as the handler leaves it.
Out(r, cwd) ==
    [ok |-> r.ok, val |-> r.val, err |-> r.err, fs |-> r.fs, log |-> r.log, cwd |-> cwd]
\* The handler returns Ok(val) where the collaborator returned Ok.
OkWith(r, val, cwd) == Out(IF r.ok THEN [r EXCEPT !.val = val] ELSE r, cwd)
\* The handler returns before it calls a collaborator.
Fail(err, f, cwd) == Out(Err(err, f, <<>>), cwd)
\* A call of a collaborator, put in front of the OS-level calls it made.
Called(name, arg, r) == [r EXCEPT !.log = <<Sys(name, arg)>> \o @]

Missing(k) == "Missing required parameter: " \o k
StrOr(params, k, d) == IF HasStr(params, k) THEN params[k].s ELSE d

execute_list_directory(cwd, f, params, os) ==
    LET path == StrOr(params, "path", ".")
        recursive == BoolOr(params, "recursive", FALSE)
    IN  Out(Called("read_directory_contents", path, read_directory_contents(f, path, recursive)), cwd)

execute_read_file(cwd, f, params, os) ==
    IF ~HasStr(params, "path") THEN Fail(Missing("path"), f, cwd)
    ELSE Out(Called("read_file_contents", params["path"].s,
                    read_file_contents(f, params["path"].s)), cwd)

execute_write_file(cwd, f, params, os) ==
    IF ~HasStr(params, "path") THEN Fail(Missing("path"), f, cwd)
    ELSE IF ~HasStr(params, "content") THEN Fail(Missing("content"), f, cwd)
    ELSE OkWith(Called("write_file_contents", params["path"].s,
                       write_file_contents(f, params["path"].s, params["content"].s)),
                JStr("Successfully wrote to " \o params["path"].s), cwd)

execute_search_files(cwd, f, params, os) ==
    IF ~HasStr(params, "pattern") THEN Fail(Missing("pattern"), f, cwd)
    ELSE LET directory == StrOr(params, "directory", ".")
         IN  Out(Called("search_in_files", directory,
                        search_in_files(f, directory, params["pattern"].s)), cwd)

execute_open_file(cwd, f, params, os) ==
    IF ~HasStr(params, "path") THEN Fail(Missing("path"), f, cwd)
    ELSE OkWith(Called("open_with_default_app", params["path"].s,
                       open_with_default_app(f, params["path"].s, os)),
                JStr("Opened " \o params["path"].s \o " with default application"), cwd)

\* A handler that stores the path before it has looked at it.
execute_change_directory_unchecked(cwd, f, params, os) ==
    IF ~HasStr(params, "path") THEN Fail(Missing("path"), f, cwd)
    ELSE LET path == params["path"].s
         IN  IF ~exists(f, path) \/ ~is_dir(f, path)
             THEN Fail("Directory does not exist: " \o path, f, path)
             ELSE Out(Ok(JStr("Changed directory to " \o path), f, <<>>), path)

execute_change_directory(cwd, f, params, os) ==
    IF ~HasStr(params, "path") THEN Fail(Missing("path"), f, cwd)
    ELSE LET path == params["path"].s
         IN  IF ~exists(f, path) \/ ~is_dir(f, path)
             THEN Fail("Directory does not exist: " \o path, f, cwd)
             ELSE Out(Ok(JStr("Changed directory to " \o path), f, <<>>), path)

execute_launch_application(cwd, f, params, os) ==
    IF ~HasStr(params, "path") THEN Fail(Missing("path"), f, cwd)
    ELSE OkWith(Called("launch_application", params["path"].s,
                       launch_application(f, params["path"].s, os)),
                JObj("{success,pid,message}"), cwd)

execute_get_installed_apps(cwd, f, params, os) ==
    Out(Called("get_installed_applications", "", get_installed_applications(f)), cwd)

\* The handler without its permission check.
execute_command_unchecked(cwd, f, params, os) ==
    IF ~HasStr(params, "command") THEN Fail(Missing("command"), f, cwd)
    ELSE LET command == params["command"].s
             working_dir == Some(StrOr(params, "working_directory", cwd))
         IN  Out(Called("execute_terminal_command", command,
                        execute_terminal_command(f, command, working_dir, os)), cwd)

execute_command(cwd, f, params, os) ==
    IF ~HasStr(params, "command") THEN Fail(Missing("command"), f, cwd)
    ELSE LET command == params["command"].s
             working_dir == Some(StrOr(params, "working_directory", cwd))
             permission == check_permission_level("execute_command", params)
         IN  IF permission.level = Dangerous
             THEN Fail("Command requires explicit user permission: " \o command, f, cwd)
             ELSE Out(Called("execute_terminal_command", command,
                             execute_terminal_command(f, command, working_dir, os)), cwd)

FileOperationType(operation_type) ==
    CASE operation_type = "copy" -> Some("Copy")
      [] operation_type = "move" -> Some("Move")
      [] operation_type = "delete" -> Some("Delete")
      [] operation_type = "create_directory" -> Some("CreateDirectory")
      [] operation_type = "rename" -> Some("Rename")
      [] OTHER -> None

execute_file_operation(cwd, f, params, os) ==
    IF ~HasStr(params, "operation_type") THEN Fail(Missing("operation_type"), f, cwd)
    ELSE IF ~HasStr(params, "source") THEN Fail(Missing("source"), f, cwd)
    ELSE LET file_op_type == FileOperationType(params["operation_type"].s)
             operation == [operation_type |-> file_op_type.s,
                           source |-> params["source"].s,
                           destination |-> IF HasStr(params, "destination")
                                           THEN Some(params["destination"].s) ELSE None,
                           recursive |-> BoolOr(params, "recursive", FALSE)]
         IN  IF ~file_op_type.some
             THEN Fail("Invalid operation type: " \o params["operation_type"].s, f, cwd)
             ELSE Out(Called("perform_file_operation", operation.source,
                             perform_file_operation(f, operation)), cwd)

execute_get_processes(cwd, f, params, os) ==
    Out(Called("get_running_processes", "", get_running_processes(f, os)), cwd)

execute_kill_process(cwd, f, params, os) ==
    IF ~HasU64(params, "pid") THEN Fail(Missing("pid"), f, cwd)
    ELSE LET pid == params["pid"].n  \* as u32: the pids of the model are below 2^31
             permission == check_permission_level("kill_process", params)
         IN  IF permission.level = Dangerous
             THEN Fail("Killing process requires explicit user permission: PID "
                           \o NatToString(pid), f, cwd)
             ELSE OkWith(Called("kill_process", NatToString(pid), kill_process(f, pid, os)),
                         JStr("Successfully terminated process with PID: " \o NatToString(pid)),
                         cwd)

\* The action types execute_action has an arm for.
Handlers ==
    {"list_directory", "read_file", "write_file", "search_files", "open_file",
     "change_directory", "launch_application", "get_installed_apps", "execute_command",
     "file_operation", "get_processes", "kill_process"}

\* The arms of the match of execute_action that name a handler.
handler_arm(action_type, cwd, f, params, os) ==
    CASE action_type = "list_directory" -> execute_list_directory(cwd, f, params, os)
      [] action_type = "read_file" -> execute_read_file(cwd, f, params, os)
      [] action_type = "write_file" -> execute_write_file(cwd, f, params, os)
      [] action_type = "search_files" -> execute_search_files(cwd, f, params, os)
      [] action_type = "open_file" -> execute_open_file(cwd, f, params, os)
      [] action_type = "change_directory" -> execute_change_directory(cwd, f, params, os)
      [] action_type = "launch_application" -> execute_launch_application(cwd, f, params, os)
      [] action_type = "get_installed_apps" -> execute_get_installed_apps(cwd, f, params, os)
      [] action_type = "execute_command" -> execute_command(cwd, f, params, os)
      [] action_type = "file_operation" -> execute_file_operation(cwd, f, params, os)
      [] action_type = "get_processes" -> execute_get_processes(cwd, f, params, os)
      [] action_type = "kill_process" -> execute_kill_process(cwd, f, params, os)

\* A dispatcher whose default arm falls through to a handler.
run_handler_default_arm(action_type, cwd, f, params, os) ==
    IF action_type \in Handlers
    THEN handler_arm(action_type, cwd, f, params, os)
    ELSE execute_list_directory(cwd, f, params, os)

\* The match of execute_action on the action type, with its default arm.
run_handler(action_type, cwd, f, params, os) ==
    IF action_type \in Handlers
    THEN handler_arm(action_type, cwd, f, params, os)
    ELSE Fail("Unknown action type: " \o action_type, f, cwd)

\* A dispatcher that records a handler's error without its message.
completed_action_without_message(action_type, parameters, r) ==
    IF r.ok
    THEN [action_type |-> action_type,
          description |-> "Successfully executed " \o action_type,
          parameters |-> parameters,
          result |-> r.val,
          success |-> TRUE,
          error_message |-> None]
    ELSE [action_type |-> action_type,
          description |-> "Failed to execute " \o action_type,
          parameters |-> parameters,
          result |-> JAbsent,
          success |-> FALSE,
          error_message |-> None]

\* The AgentAction execute_action fills in from the handler's outcome.
completed_action(action_type, parameters, r) ==
    IF r.ok
    THEN [action_type |-> action_type,
          description |-> "Successfully executed " \o action_type,
          parameters |-> parameters,
          result |-> r.val,
          success |-> TRUE,
          error_message |-> None]
    ELSE [action_type |-> action_type,
          description |-> "Failed to execute " \o action_type \o ": " \o r.err,
          parameters |-> parameters,
          result |-> JAbsent,
          success |-> FALSE,
          error_message |-> Some(r.err)]

\* A dispatcher that records an action only when it succeeded.
push_action_if_success(actions, action) ==
    IF action.success THEN Append(actions, action) ELSE actions

\* actions.lock() and push: no code panics while it holds the lock, so the
\* mutex is never poisoned and the push always happens.
push_action(actions, action) == Append(actions, action)

\* execute_action on a session: its Result (always Ok), the returned action,
\* the session and the filesystem as it leaves them, the handler it ran ("" when none) and the
\* collaborator calls made.
\* A dispatcher that hands a handler's error to its caller (`?` on the
\* handler's result) instead of recording it.
execute_action_propagating(session, action_type, parameters, f, os) ==
    LET r == run_handler(action_type, session.current_directory, f, parameters, os)
        action == completed_action(action_type, parameters, r)
    IN  [ok |-> r.ok, err |-> r.err,
         action |-> action,
         session |-> [session EXCEPT !.actions = IF r.ok THEN push_action(@, action) ELSE @,
                                     !.current_directory = r.cwd],
         fs |-> r.fs,
         handler |-> IF action_type \in Handlers THEN action_type ELSE "",
         log |-> r.log]

execute_action(session, action_type, parameters, f, os) ==
    LET r == run_handler(action_type, session.current_directory, f, parameters, os)
        action == completed_action(action_type, parameters, r)
    IN  [ok |-> TRUE, err |-> "",
         action |-> action,
         session |-> [session EXCEPT !.actions = push_action(@, action),
                                     !.current_directory = r.cwd],
         fs |-> r.fs,
         handler |-> IF action_type \in Handlers THEN action_type ELSE "",
         log |-> r.log]

(***************************************************************************)
(* The system commands (commands.rs).  Each yields the collaborator's      *)
(* outcome and the window events emitted; emit_ok says whether window.emit *)
(* succeeds.                                                               *)
(***************************************************************************)
Emitted(name, payload) == [name |-> name, payload |-> payload]
\* The payload of a permission_request event
PermissionRequest(permission, callback_id) ==
    Emitted("permission_request",
            [operation |-> permission.operation, description |-> permission.description,
             level |-> permission.level, details |-> permission.details,
             callback_id |-> callback_id])
\* window.emit(..).map_err(|e| e.to_string())? on a failing emit
EmitError == "failed to emit event"
Direct(res, evs) == [res |-> res, events |-> evs]

\* request_permission
request_permission(f, operation, parameters, emit_ok) ==
    LET permission == check_permission_level(operation, parameters)
    IN  IF ~emit_ok THEN Direct(Err(EmitError, f, <<>>), <<>>)
        ELSE Direct(Ok(JBool(permission.level # Dangerous), f, <<>>),
                    <<PermissionRequest(permission, None)>>)

\* launch_app
launch_app(f, app_path, arguments, request_permission_flag, emit_ok, os) ==
    LET params == Path(app_path) @@
                  (IF arguments.some THEN "arguments" :> JArr(arguments.a) ELSE EmptyMap)
        permission == check_permission_level("launch_app", params)
        evs == IF request_permission_flag
               THEN <<PermissionRequest(permission, Some("launch_app"))>> ELSE <<>>
    IN  IF request_permission_flag /\ ~emit_ok THEN Direct(Err(EmitError, f, <<>>), <<>>)
        ELSE IF request_permission_flag /\ permission.level = Dangerous
        THEN Direct(Err("Permission denied: This operation requires explicit user permission",
                        f, <<>>), evs)
        ELSE Direct(Called("launch_application", app_path, launch_application(f, app_path, os)),
                    evs)

\* execute_command (the command, not the session's handler)
execute_command_direct(f, command, working_directory, request_permission_flag, emit_ok, os) ==
    LET params == Cmd(command) @@
                  (IF working_directory.some
                   THEN "working_directory" :> JStr(working_directory.s) ELSE EmptyMap)
        permission == check_permission_level("execute_command", params)
        evs == IF request_permission_flag
               THEN <<PermissionRequest(permission, Some("execute_command"))>> ELSE <<>>
    IN  IF request_permission_flag /\ ~emit_ok THEN Direct(Err(EmitError, f, <<>>), <<>>)
        ELSE IF request_permission_flag /\ permission.level = Dangerous
        THEN Direct(Err("Permission denied: This command requires explicit user permission",
                        f, <<>>), evs)
        ELSE Direct(Called("execute_terminal_command", command,
                           execute_terminal_command(f, command, working_directory, os)), evs)

\* perform_file_system_operation
perform_file_system_operation(f, operation_type, source, destination, recursive, request_permission_flag, emit_ok) ==
    LET file_op_type == FileOperationType(operation_type)
        asks == request_permission_flag /\ file_op_type = Some("Delete")
        permission == check_permission_level("delete_file", Path(source))
        evs == IF asks THEN <<PermissionRequest(permission, Some("file_operation"))>> ELSE <<>>
        operation == [operation_type |-> file_op_type.s, source |-> source,
                      destination |-> destination, recursive |-> recursive]
    IN  IF ~file_op_type.some
        THEN Direct(Err("Invalid operation type: " \o operation_type, f, <<>>), <<>>)
        ELSE IF asks /\ ~emit_ok THEN Direct(Err(EmitError, f, <<>>), <<>>)
        ELSE IF asks /\ permission.level = Dangerous
        THEN Direct(Err("Permission denied: Deleting system files requires explicit permission",
                        f, <<>>), evs)
        ELSE Direct(Called("perform_file_operation", source, perform_file_operation(f, operation)),
                    evs)

\* terminate_process
terminate_process(f, pid, request_permission_flag, emit_ok, os) ==
    LET permission == check_permission_level("kill_process", Pid(JNum(pid)))
        killed == Called("kill_process", NatToString(pid), kill_process(f, pid, os))
    IN  IF request_permission_flag
        THEN IF ~emit_ok THEN Direct(Err(EmitError, f, <<>>), <<>>)
             ELSE Direct(Err("Permission required: Terminating processes requires explicit user permission",
                             f, <<>>),
                         <<PermissionRequest(permission, Some("kill_process"))>>)
        ELSE IF killed.ok
             THEN Direct([killed EXCEPT !.val = JStr("Successfully terminated process with PID: "
                                                       \o NatToString(pid))], <<>>)
             ELSE Direct(killed, <<>>)

(***************************************************************************)
(* send_chat_completion_streaming (database.rs).                           *)
(***************************************************************************)
\* str::find of a character: its first index, 0 when there is none
RECURSIVE IndexFrom(_, _, _)
IndexFrom(s, c, i) ==
    IF i > Len(s) THEN 0
    ELSE IF CharAt(s, i) = c THEN i
    ELSE IndexFrom(s, c, i + 1)
IndexOf(s, c) == IndexFrom(s, c, 1)

\* str::lines: the text is cut at each "\n", a "\r" before it goes with it,
\* and what follows the last "\n" is a line unless it is empty.
StripCr(l) == IF ends_with(l, "\r") THEN SubSeq(l, 1, Len(l) - 1) ELSE l
RECURSIVE lines(_)
lines(s) ==
    LET i == IndexOf(s, "\n")
    IN  IF s = "" THEN <<>>
        ELSE IF i = 0 THEN <<s>>
        ELSE <<StripCr(SubSeq(s, 1, i - 1))>> \o lines(SubSeq(s, i + 1, Len(s)))

\* str::split_whitespace: the maximal runs of characters that are not white
is_whitespace(c) == c \in {" ", "\n", "\t", "\r"}
RECURSIVE WordEnd(_, _)
WordEnd(s, i) ==
    IF i > Len(s) \/ is_whitespace(CharAt(s, i)) THEN i - 1 ELSE WordEnd(s, i + 1)
RECURSIVE split_whitespace(_)
split_whitespace(s) ==
    IF s = "" THEN <<>>
    ELSE IF is_whitespace(CharAt(s, 1)) THEN split_whitespace(SubSeq(s, 2, Len(s)))
    ELSE LET e == WordEnd(s, 1)
         IN  <<SubSeq(s, 1, e)>> \o split_whitespace(SubSeq(s, e + 1, Len(s)))

\* The server's frames: a delta with content, a delta with a role only, the
\* closing delta (an empty object), a frame with no choices.
DeltaFrame(text) == "{\"choices\":[{\"delta\":{\"content\":\"" \o text \o "\"}}]}"
RoleFrame == "{\"choices\":[{\"delta\":{\"role\":\"assistant\"}}]}"
StopFrame == "{\"choices\":[{\"delta\":{},\"finish_reason\":\"stop\"}]}"
NullDeltaFrame == "{\"choices\":[{\"delta\":null}]}"
UsageFrame == "{\"usage\":{\"total_tokens\":7}}"
DeltaTexts == {"Hel", "lo", "x", ""}

\* serde_json::from_str on the frames above, any other text being no JSON:
\* whether it parsed, whether choices is a non-empty array, and of its first
\* choice whether delta is an object, whether the object has the key
\* "content" and the string under it.
Parsed(is_json, has_choice, delta_object, has_content, content) ==
    [is_json |-> is_json, has_choice |-> has_choice, delta_object |-> delta_object,
     has_content |-> has_content, content |-> content]
from_str(data) ==
    IF \E t \in DeltaTexts : data = DeltaFrame(t)
    THEN Parsed(TRUE, TRUE, TRUE, TRUE, CHOOSE t \in DeltaTexts : data = DeltaFrame(t))
    ELSE IF data \in {RoleFrame, StopFrame} THEN Parsed(TRUE, TRUE, TRUE, FALSE, "")
    ELSE IF data = NullDeltaFrame THEN Parsed(TRUE, TRUE, FALSE, FALSE, "")
    ELSE IF data = UsageFrame THEN Parsed(TRUE, FALSE, FALSE, FALSE, "")
    ELSE Parsed(FALSE, FALSE, FALSE, FALSE, "")

\* An emit of the streaming call: `let _ = window.emit(..)`, delivered or not.
StreamEvent(name, chunk, full_content, content, delivered) ==
    [name |-> name, chunk |-> chunk, full_content |-> full_content, content |-> content,
     delivered |-> delivered]

\* The body of the loop over the lines of a transport chunk, from line i on:
\* the accumulator, the emits made, and whether delta["content"] panicked.
\* Map's Index panics on a key that is absent.
RECURSIVE process_lines(_, _, _, _, _)
process_lines(ls, i, full_response, emits, emit_ok) ==
    IF i > Len(ls) THEN [full_response |-> full_response, emits |-> emits, panic |-> FALSE]
    ELSE IF ~starts_with(ls[i], "data: ")
         THEN process_lines(ls, i + 1, full_response, emits, emit_ok)
    ELSE LET data == SubSeq(ls[i], 7, Len(ls[i]))
             json_data == from_str(data)
         IN  IF data = "[DONE]"
             THEN [full_response |-> full_response, emits |-> emits, panic |-> FALSE]
             ELSE IF ~(json_data.is_json /\ json_data.has_choice /\ json_data.delta_object)
             THEN process_lines(ls, i + 1, full_response, emits, emit_ok)
             ELSE IF ~json_data.has_content
             THEN [full_response |-> full_response, emits |-> emits, panic |-> TRUE]
             ELSE process_lines(ls, i + 1, full_response \o json_data.content,
                                Append(emits,
                                       StreamEvent("streaming_chunk", json_data.content,
                                                   full_response \o json_data.content, "",
                                                   emit_ok)),
                                emit_ok)

(***************************************************************************)
(* The provider configurations and the chats that use them (database.rs).  *)
(* A table is a function from the ids of its rows; a statement that fails  *)
(* (sqlx error) leaves the table as it was and the call returns the error. *)
(***************************************************************************)
\* CreateApiConfigRequest / UpdateApiConfigRequest, as far as the statements
\* look at them
ConfigRequest(name, provider, is_default) ==
    [name |-> name, provider |-> provider, is_default |-> is_default]
\* the row INSERT .. RETURNING * gives
ApiConfig(id, request) ==
    [id |-> id, name |-> request.name, provider |-> request.provider,
     is_default |-> request.is_default]

NoRows == [id \in {} |-> ApiConfig(id, ConfigRequest("", "", FALSE))]
EmptyDb == [api_configs |-> NoRows, chats |-> [id \in {} |-> None]]

DbOk(val, d) == [ok |-> TRUE, val |-> val, err |-> "", db |-> d]
DbErr(err, d) == [ok |-> FALSE, val |-> JAbsent, err |-> err, db |-> d]
SqlxError == "error returned from database"
RowNotFound == "no rows returned by a query that expected to return at least one row"

\* UPDATE api_configs SET is_default = FALSE
clear_defaults(d) ==
    [d EXCEPT !.api_configs = [id \in DOMAIN @ |-> [@[id] EXCEPT !.is_default = FALSE]]]
\* INSERT INTO api_configs .. RETURNING *
insert_api_config(d, id, request) ==
    [d EXCEPT !.api_configs = Insert(@, id, ApiConfig(id, request))]
\* UPDATE api_configs SET name = ?, .., is_default = ? WHERE id = ?
update_row(d, config_id, request) ==
    [d EXCEPT !.api_configs[config_id] =
        [@ EXCEPT !.name = request.name, !.is_default = request.is_default]]

\* create_api_config without the statement that clears the other defaults
create_api_config_keeping_defaults(d, id, request, fault) ==
    IF fault = "clear" /\ request.is_default THEN DbErr(SqlxError, d)
    ELSE IF fault = "write" THEN DbErr(SqlxError, d)
    ELSE DbOk(ApiConfig(id, request), insert_api_config(d, id, request))

\* Database::create_api_config; id is the Uuid drawn, fault the statement
\* that fails ("none", "clear", "write").
create_api_config(d, id, request, fault) ==
    IF fault = "clear" /\ request.is_default THEN DbErr(SqlxError, d)
    ELSE LET cleared == IF request.is_default THEN clear_defaults(d) ELSE d
         IN  IF fault = "write" THEN DbErr(SqlxError, cleared)
             ELSE DbOk(ApiConfig(id, request), insert_api_config(cleared, id, request))

\* Database::update_api_config: fetch_one fails when no row has the id.
update_api_config(d, config_id, request, fault) ==
    IF fault = "clear" /\ request.is_default THEN DbErr(SqlxError, d)
    ELSE LET cleared == IF request.is_default THEN clear_defaults(d) ELSE d
         IN  IF fault = "write" THEN DbErr(SqlxError, cleared)
             ELSE IF config_id \notin DOMAIN cleared.api_configs
             THEN DbErr(RowNotFound, cleared)
             ELSE LET updated == update_row(cleared, config_id, request)
                  IN  DbOk(updated.api_configs[config_id], updated)

\* Database::delete_api_config
delete_api_config(d, config_id) ==
    LET count == Cardinality(DOMAIN d.api_configs)
        chats_using == Cardinality({c \in DOMAIN d.chats : d.chats[c] = Some(config_id)})
    IN  IF count <= 1 THEN DbErr("Cannot delete the last API configuration", d)
        ELSE IF chats_using > 0
        THEN DbErr("Cannot delete API configuration that is being used by chats", d)
        ELSE DbOk(JNull,
                  [d EXCEPT !.api_configs =
                      [id \in DOMAIN @ \ {config_id} |-> @[id]]])

\* Database::create_chat: the chat row keeps the id of its configuration.
create_chat(d, id, api_config_id) ==
    DbOk(JObj("Chat"), [d EXCEPT !.chats = Insert(@, id, api_config_id)])

(***************************************************************************)
(* State.                                                                  *)
(***************************************************************************)
VARIABLES
    agent_sessions, \* the managed Mutex<HashMap<String, AgentSession>>
    fs,             \* the filesystem
    call,           \* the command invoked last, with its arguments
    ret,            \* what it returned
    collab,         \* the collaborator and OS calls it made, in order
    events,         \* the window events it emitted, in order
    dispatched,     \* per session id, the execute_action calls made so far
    ncalls,         \* commands invoked so far
    stream,         \* the streaming completion in progress
    db,             \* the tables of the database
    tasks,          \* the dispatches in flight, each at its step
    arcs            \* the Arc<Mutex<..>> allocations handles point to

vars == <<agent_sessions, fs, call, ret, collab, events, dispatched, ncalls, stream, db, tasks, arcs>>

SessionIds == {"s1", "s2"}

capabilities ==
    <<"list_directory", "read_file", "write_file", "search_files", "open_file",
      "change_directory", "get_file_info", "launch_application", "get_installed_apps",
      "execute_command", "file_operation", "get_processes", "kill_process">>

\* AgentSession::new
NewSession(id) ==
    [id |-> id,
     active |-> TRUE,
     actions |-> <<>>,
     context |-> EmptyMap,
     current_directory |-> ProcessCwd,
     capabilities |-> capabilities]

NoAction ==
    [action_type |-> "", description |-> "", parameters |-> EmptyMap,
     result |-> JAbsent, success |-> FALSE, error_message |-> None]

\* A command's return value: Ok (with the AgentAction or the value it
\* carries) or Err(err).
RetOk(action, value) == [ok |-> TRUE, err |-> "", action |-> action, value |-> value]
RetErr(err) == [ok |-> FALSE, err |-> err, action |-> NoAction, value |-> JAbsent]

Call(cmd, session_id, operation, parameters, request_permission_flag) ==
    [cmd |-> cmd, session_id |-> session_id, operation |-> operation,
     parameters |-> parameters, request_permission |-> request_permission_flag]

\* Where a completion stands: "command" when send_ai_message_streaming (or
\* send_ai_message, streaming = FALSE) is invoked, "call" before the request
\* is sent, "reading" the body of a native stream, "words" of a simulated
\* one, "returned" from the database's call, "panicked", "finished" when
\* the command has returned reply.  sent, status_ok and body are the
\* server's answer, transport the chunks the server sends and wire what is
\* left of them, completion what send_chat_completion gives the simulated
\* stream.
NoResult == [ok |-> FALSE, val |-> "", err |-> ""]
StreamCall(provider, status_ok, body, wire, completion) ==
    [pc |-> "command", streaming |-> TRUE, provider |-> provider, base_url |-> TRUE,
     sent |-> TRUE, status_ok |-> status_ok, body |-> body,
     wire |-> wire, transport |-> wire, completion |-> completion, words |-> <<>>, i |-> 0,
     full_response |-> "", current_content |-> "", emits |-> <<>>, result |-> NoResult,
     reply |-> NoResult]
NoStream == [StreamCall("", FALSE, "", <<>>, NoResult) EXCEPT !.pc = "none"]

\* No dispatch is in flight.
NoTasks == [t \in {} |-> [pc |-> "done"]]

\* The state every command starts from.
InitSystem ==
    /\ agent_sessions = [id \in {} |-> NewSession(id)]
    /\ fs = InitFs
    /\ call = Call("", "", "", EmptyMap, FALSE)
    /\ ret = RetOk(NoAction, JAbsent)
    /\ collab = <<>>
    /\ events = <<>>
    /\ dispatched = [id \in SessionIds |-> <<>>]
    /\ ncalls = 0
    /\ db = EmptyDb
    /\ tasks = NoTasks
    /\ arcs = <<>>

Init == InitSystem /\ stream = NoStream

(***************************************************************************)
(* Inputs.                                                                 *)
(***************************************************************************)
Input(action_type, parameters) == [action_type |-> action_type, parameters |-> parameters]

\* 512 bytes of text and then a zero byte: the zero is past the sniffed head.
Text513 == Repeat("x", SniffLen) \o NUL
\* more than LargeFileLen bytes, the first of them zero
Big8193 == NUL \o Repeat("x", LargeFileLen)

Contents == {"bye", "a" \o NUL \o "b", Text513, Big8193}

\* What the dispatcher is driven with: every handler, unknown action types,
\* missing and ill-typed parameters, failing and blocked operations.
ActionInputs ==
    {Input("list_directory", EmptyMap),
     Input("search_files", ("pattern" :> JStr("(")) @@ ("directory" :> JStr("/etc"))),
     Input("open_file", Path("/tmp/a.txt")),
     Input("launch_application", Path("/nope") @@ ("arguments" :> JArr(<<JStr("-v"), JNum(1)>>))),
     Input("get_installed_apps", EmptyMap),
     Input("get_processes", EmptyMap),
     Input("teleport", EmptyMap),
     Input("get_file_info", Path("/tmp/a.txt"))}
    \cup {Input("read_file", Path(p)) : p \in {"/tmp/a.txt", "/tmp/b.png", "/tmp/new/c.txt"}}
    \cup {Input("write_file", Path("/tmp/a.txt") @@ ("content" :> JStr(c))) : c \in Contents}
    \cup {Input("write_file", Path(p) @@ ("content" :> JStr("data"))) :
            p \in {"/tmp/b.png", "/tmp/new/c.txt", "/tmp"}}
    \cup {Input("write_file", Path("/tmp/a.txt"))}
    \cup {Input("change_directory", Path(p)) : p \in {"/etc", "/nope", "/tmp/a.txt"}}
    \cup {Input("change_directory", "path" :> JNum(1))}
    \cup {Input("execute_command", Cmd(c)) :
            c \in {"ls", "rm -rf /", "Sudo reboot", "mkfs /dev/sda"}}
    \cup {Input("execute_command", EmptyMap),
          Input("execute_command", "command" :> JNum(7)),
          Input("execute_command", Cmd("ls") @@ ("working_directory" :> JStr("/etc")))}
    \cup {Input("file_operation", FileOp("delete", src)) :
            src \in {"/tmp/a.txt", "/etc/hosts", "C:\\Windows\\win.ini"}}
    \cup {Input("file_operation", FileOp("copy", "/tmp/a.txt") @@ ("destination" :> JStr("/tmp/b.png"))),
          Input("file_operation", FileOp("chmod", "/tmp/a.txt"))}
    \cup {Input("kill_process", Pid(v)) : v \in {JNum(1234), JNum(0 - 1), JStr("1234")}}
    \cup {Input("kill_process", EmptyMap)}

\* Whether the outcome of a dispatch depends on the OS carrying out a spawn.
UsesOs(inp) ==
    inp.action_type \in {"open_file", "launch_application", "execute_command",
                         "get_processes", "kill_process"}
    /\ (inp.action_type = "execute_command" => inp.parameters \in {Cmd("ls")})
    /\ (inp.action_type = "kill_process" => inp.parameters \in {Pid(JNum(1234))})
OsChoices(inp) == IF UsesOs(inp) THEN BOOLEAN ELSE {TRUE}

\* The second session is driven with a few inputs only; it is there to show
\* that sessions do not share their log, directory or lookups.
ProbeInputs ==
    {Input("change_directory", Path("/etc"))}
Requests ==
    {[id |-> "s1", inp |-> inp] : inp \in ActionInputs}
    \cup {[id |-> "s2", inp |-> inp] : inp \in ProbeInputs}

(***************************************************************************)
(* Session commands (commands.rs).                                         *)
(***************************************************************************)
\* A command returns a session as the serializer reads it when the command
\* returns: the clone shares the audit log and the working directory.
\* create_agent_session: the session is built and returned, not stored.
CreateAgentSession(session_id) ==
    /\ call' = Call("create_agent_session", session_id, "", EmptyMap, FALSE)
    /\ ret' = RetOk(NoAction, NewSession(session_id))
    /\ collab' = <<>>
    /\ events' = <<>>
    /\ UNCHANGED <<agent_sessions, fs, dispatched, ncalls, stream, db, tasks, arcs>>

\* get_agent_session
GetAgentSession(session_id) ==
    /\ call' = Call("get_agent_session", session_id, "", EmptyMap, FALSE)
    /\ ret' = IF session_id \in DOMAIN agent_sessions
              THEN RetOk(NoAction, agent_sessions[session_id])
              ELSE RetErr("Agent session not found")
    /\ collab' = <<>>
    /\ events' = <<>>
    /\ UNCHANGED <<agent_sessions, fs, dispatched, ncalls, stream, db, tasks, arcs>>

\* A store that forgets what a session did when the session is asked for
\* again.
CreateOrGetAgentSessionAnew(session_id) ==
    /\ agent_sessions' =
         IF session_id \in DOMAIN agent_sessions
         THEN [agent_sessions EXCEPT ![session_id] = NewSession(session_id)]
         ELSE Insert(agent_sessions, session_id, NewSession(session_id))
    /\ call' = Call("create_or_get_agent_session", session_id, "", EmptyMap, FALSE)
    /\ ret' = RetOk(NoAction, agent_sessions'[session_id])
    /\ collab' = <<>>
    /\ events' = <<>>
    /\ UNCHANGED <<fs, dispatched, ncalls, stream, db, tasks, arcs>>

\* create_or_get_agent_session
CreateOrGetAgentSession(session_id) ==
    /\ agent_sessions' =
         IF session_id \in DOMAIN agent_sessions THEN agent_sessions
         ELSE Insert(agent_sessions, session_id, NewSession(session_id))
    /\ call' = Call("create_or_get_agent_session", session_id, "", EmptyMap, FALSE)
    /\ ret' = RetOk(NoAction, agent_sessions'[session_id])
    /\ collab' = <<>>
    /\ events' = <<>>
    /\ UNCHANGED <<fs, dispatched, ncalls, stream, db, tasks, arcs>>

\* execute_agent_action: the session is cloned out of the store (the clone
\* shares its audit log and working directory), then execute_action runs.
ExecuteAgentAction(session_id, inp, os) ==
    /\ ncalls < MaxCalls
    /\ ncalls' = ncalls + 1
    /\ call' = Call("execute_agent_action", session_id, inp.action_type, inp.parameters, FALSE)
    /\ events' = <<>>
    /\ UNCHANGED <<stream, db, tasks, arcs>>
    /\ IF session_id \notin DOMAIN agent_sessions
       THEN /\ ret' = RetErr("Agent session not found")
            /\ collab' = <<>>
            /\ UNCHANGED <<agent_sessions, fs, dispatched>>
       ELSE \E r \in {execute_action(agent_sessions[session_id], inp.action_type,
                                       inp.parameters, fs, os)} :
                /\ agent_sessions' = [agent_sessions EXCEPT ![session_id] = r.session]
                /\ fs' = r.fs
                /\ ret' = IF r.ok THEN RetOk(r.action, JAbsent) ELSE RetErr(r.err)
                /\ collab' = (IF r.handler = "" THEN <<>> ELSE <<Sys("handler", r.handler)>>) \o r.log
                /\ dispatched' = [dispatched EXCEPT ![session_id] = Append(@, inp)]

Next ==
    \/ \E id \in SessionIds : CreateOrGetAgentSession(id)
    \/ \E req \in Requests : \E os \in OsChoices(req.inp) :
          ExecuteAgentAction(req.id, req.inp, os)

Spec == Init /\ [][Next]_vars

(***************************************************************************)
(* The session store as a caller can drive it: the three session commands  *)
(* and dispatches, on either id, in any order.                             *)
(***************************************************************************)
StoreInputs ==
    {Input("change_directory", Path("/etc")),
     Input("list_directory", EmptyMap),
     Input("teleport", EmptyMap)}

NextStore ==
    \/ \E id \in SessionIds : CreateAgentSession(id)
    \/ \E id \in SessionIds : GetAgentSession(id)
    \/ \E id \in SessionIds : CreateOrGetAgentSession(id)
    \/ \E id \in SessionIds : \E inp \in StoreInputs : ExecuteAgentAction(id, inp, TRUE)

SpecStore == Init /\ [][NextStore]_vars

(***************************************************************************)
(* The configuration commands (commands.rs), one call at a time.           *)
(***************************************************************************)
\* A database command returns: its row or error, and the tables it leaves.
DbStep(c, r) ==
    /\ call' = c
    /\ ret' = IF r.ok THEN RetOk(NoAction, r.val) ELSE RetErr(r.err)
    /\ db' = r.db
    /\ collab' = <<>>
    /\ events' = <<>>
    /\ UNCHANGED <<agent_sessions, fs, dispatched, ncalls, stream, tasks, arcs>>

ConfigCall(cmd, config_id, request) ==
    Call(cmd, "", config_id,
         ("name" :> JStr(request.name)) @@ ("is_default" :> JBool(request.is_default)), FALSE)

\* The ids Uuid::new_v4 is drawn from: an id is new to its table.
ConfigIds == {"c1", "c2", "c3"}
ChatIds == {"k1"}
ConfigRequests ==
    {ConfigRequest(name, "Anthropic", is_default) : name \in {"a", "b"}, is_default \in BOOLEAN}
Faults == {"none", "clear", "write"}

CreateApiConfig(id, request, fault) ==
    /\ id \notin DOMAIN db.api_configs
    /\ \E r \in {create_api_config(db, id, request, fault)} :
          DbStep(ConfigCall("create_api_config", id, request), r)

UpdateApiConfig(config_id, request, fault) ==
    \E r \in {update_api_config(db, config_id, request, fault)} :
        DbStep(ConfigCall("update_api_config", config_id, request), r)

DeleteApiConfig(config_id) ==
    \E r \in {delete_api_config(db, config_id)} :
        DbStep(Call("delete_api_config", "", config_id, EmptyMap, FALSE), r)

CreateChat(id, api_config_id) ==
    /\ id \notin DOMAIN db.chats
    /\ \E r \in {create_chat(db, id, api_config_id)} :
          DbStep(Call("create_chat", "", id, EmptyMap, FALSE), r)

NextConfig ==
    \/ \E id \in ConfigIds, request \in ConfigRequests, fault \in Faults :
          CreateApiConfig(id, request, fault)
    \/ \E id \in ConfigIds, request \in ConfigRequests, fault \in Faults :
          UpdateApiConfig(id, request, fault)
    \/ \E id \in ConfigIds : DeleteApiConfig(id)
    \/ \E id \in ChatIds, config_id \in ConfigIds : CreateChat(id, Some(config_id))

SpecConfig == Init /\ [][NextConfig]_vars

(***************************************************************************)
(* Dispatches in flight at the same time.  Tauri runs each invocation of   *)
(* an async command as a task of its own; a task is preempted between the  *)
(* steps below: the lookup under the store's mutex, the handler, the       *)
(* actions.lock() of execute_action, and the push under that lock.         *)
(***************************************************************************)
TaskIds == {1, 2, 3}
ConcurrentInputs ==
    {Input("change_directory", Path("/etc")),
     Input("write_file", Path("/tmp/a.txt") @@ ("content" :> JStr("bye"))),
     Input("teleport", EmptyMap)}

Task(pc, session_id, inp) ==
    [pc |-> pc, session_id |-> session_id, inp |-> inp, action |-> NoAction,
     seen |-> <<>>, ok |-> FALSE, err |-> ""]

\* A log without a mutex: a task is never kept waiting.
actions_lock_never_held(ts, session_id) == FALSE

\* Some task holds the MutexGuard of the session's audit log.
actions_lock_held(ts, session_id) ==
    \E u \in DOMAIN ts : ts[u].pc = "push" /\ ts[u].session_id = session_id

\* execute_agent_action is invoked.
Invoke(t, session_id, inp) ==
    /\ t \notin DOMAIN tasks
    /\ tasks' = Insert(tasks, t, Task("lookup", session_id, inp))
    /\ UNCHANGED <<agent_sessions, fs, call, ret, collab, events, dispatched, ncalls, stream, db, arcs>>

\* sessions.get(&session_id) .. .clone(), under the store's mutex
Lookup(t) ==
    /\ t \in DOMAIN tasks
    /\ tasks[t].pc = "lookup"
    /\ tasks' =
         IF tasks[t].session_id \in DOMAIN agent_sessions
         THEN [tasks EXCEPT ![t].pc = "handler"]
         ELSE [tasks EXCEPT ![t].pc = "done", ![t].err = "Agent session not found"]
    /\ UNCHANGED <<agent_sessions, fs, call, ret, collab, events, dispatched, ncalls, stream, db, arcs>>

\* execute_action up to the match on the handler's result
RunHandler(t) ==
    /\ t \in DOMAIN tasks
    /\ tasks[t].pc = "handler"
    /\ LET id == tasks[t].session_id
           inp == tasks[t].inp
       IN  \E r \in {run_handler(inp.action_type, agent_sessions[id].current_directory, fs,
                                  inp.parameters, TRUE)} :
              /\ fs' = r.fs
              /\ agent_sessions' = [agent_sessions EXCEPT ![id].current_directory = r.cwd]
              /\ tasks' = [tasks EXCEPT ![t].pc = "lock",
                                        ![t].action = completed_action(inp.action_type,
                                                                       inp.parameters, r)]
    /\ UNCHANGED <<call, ret, collab, events, dispatched, ncalls, stream, db, arcs>>

\* self.actions.lock(): the task waits while another holds the guard, then
\* has the Vec as it is.
LockActions(t) ==
    /\ t \in DOMAIN tasks
    /\ tasks[t].pc = "lock"
    /\ ~actions_lock_held(tasks, tasks[t].session_id)
    /\ tasks' = [tasks EXCEPT ![t].pc = "push",
                              ![t].seen = agent_sessions[tasks[t].session_id].actions]
    /\ UNCHANGED <<agent_sessions, fs, call, ret, collab, events, dispatched, ncalls, stream, db, arcs>>

\* actions.push(action.clone()), the guard dropped, Ok(action) returned
PushAction(t) ==
    /\ t \in DOMAIN tasks
    /\ tasks[t].pc = "push"
    /\ agent_sessions' = [agent_sessions EXCEPT ![tasks[t].session_id].actions =
                              push_action(tasks[t].seen, tasks[t].action)]
    /\ tasks' = [tasks EXCEPT ![t].pc = "done", ![t].ok = TRUE]
    /\ UNCHANGED <<fs, call, ret, collab, events, dispatched, ncalls, stream, db, arcs>>

NextConcurrent ==
    \/ CreateOrGetAgentSession("s1")
    \/ \E t \in TaskIds, inp \in ConcurrentInputs : Invoke(t, "s1", inp)
    \/ \E t \in TaskIds : Lookup(t)
    \/ \E t \in TaskIds : RunHandler(t)
    \/ \E t \in TaskIds : LockActions(t)
    \/ \E t \in TaskIds : PushAction(t)

SpecConcurrent == Init /\ [][NextConcurrent]_vars

(***************************************************************************)
(* The configuration commands in flight at the same time.  The Database is *)
(* managed without a mutex and its statements run on the pool one by one,  *)
(* each awaited, outside a transaction: a command is preempted between its *)
(* two statements.                                                         *)
(***************************************************************************)
ConfigTask(cmd, config_id, request) ==
    [cmd |-> cmd, pc |-> "clear", config_id |-> config_id, request |-> request,
     ok |-> FALSE, err |-> ""]

\* create_api_config (with the id Uuid::new_v4 gives it) or update_api_config
\* is invoked.
InvokeConfigCommand(t, cmd, config_id, request) ==
    /\ t \notin DOMAIN tasks
    /\ cmd = "create_api_config" =>
          /\ config_id \notin DOMAIN db.api_configs
          /\ \A u \in DOMAIN tasks : tasks[u].config_id # config_id
    /\ tasks' = Insert(tasks, t, ConfigTask(cmd, config_id, request))
    /\ UNCHANGED <<agent_sessions, fs, call, ret, collab, events, dispatched, ncalls, stream, db, arcs>>

\* if request.is_default { UPDATE api_configs SET is_default = FALSE }
ClearStatement(t) ==
    /\ t \in DOMAIN tasks
    /\ tasks[t].pc = "clear"
    /\ db' = IF tasks[t].request.is_default THEN clear_defaults(db) ELSE db
    /\ tasks' = [tasks EXCEPT ![t].pc = "write"]
    /\ UNCHANGED <<agent_sessions, fs, call, ret, collab, events, dispatched, ncalls, stream, arcs>>

\* INSERT .. RETURNING * or UPDATE .. WHERE id = ? RETURNING *, fetch_one
WriteStatement(t) ==
    /\ t \in DOMAIN tasks
    /\ tasks[t].pc = "write"
    /\ LET job == tasks[t]
       IN  IF job.cmd = "create_api_config"
           THEN /\ db' = insert_api_config(db, job.config_id, job.request)
                /\ tasks' = [tasks EXCEPT ![t].pc = "done", ![t].ok = TRUE]
           ELSE IF job.config_id \in DOMAIN db.api_configs
           THEN /\ db' = update_row(db, job.config_id, job.request)
                /\ tasks' = [tasks EXCEPT ![t].pc = "done", ![t].ok = TRUE]
           ELSE /\ UNCHANGED db
                /\ tasks' = [tasks EXCEPT ![t].pc = "done", ![t].err = RowNotFound]
    /\ UNCHANGED <<agent_sessions, fs, call, ret, collab, events, dispatched, ncalls, stream, arcs>>

StatementRequests == {ConfigRequest("a", "Anthropic", is_default) : is_default \in BOOLEAN}

NextStatements ==
    \/ \E t \in TaskIds, id \in ConfigIds, request \in StatementRequests :
          InvokeConfigCommand(t, "create_api_config", id, request)
    \/ \E t \in TaskIds, id \in ConfigIds \ {"c3"}, request \in StatementRequests :
          InvokeConfigCommand(t, "update_api_config", id, request)
    \/ \E t \in TaskIds : ClearStatement(t)
    \/ \E t \in TaskIds : WriteStatement(t)

SpecStatements == Init /\ [][NextStatements]_vars

(***************************************************************************)
(* Handles.  An AgentSession owns two Arc<Mutex<..>>: AgentSession::new    *)
(* allocates them, clone() shares them.  Here the store maps a session id  *)
(* to a handle, arcs holds what the handles point to, and every command    *)
(* in flight is a task that is preempted between its lock regions.  collab *)
(* is the order in which commands were invoked and returned.               *)
(***************************************************************************)
NoHandle == [id |-> "", arc |-> 0]
Handle(id, arc) == [id |-> id, arc |-> arc]

\* The two allocations of AgentSession::new
NewArcs == [actions |-> <<>>, current_directory |-> ProcessCwd]

\* impl Serialize for AgentSession: both mutexes are locked and their
\* contents cloned when the value is written out.
serialize(a, h) ==
    [NewSession(h.id) EXCEPT !.actions = a[h.arc].actions,
                             !.current_directory = a[h.arc].current_directory]

StoreLock == <<"store", 0>>
DirLock(h) == <<"current_directory", h.arc>>
LogLock(h) == <<"actions", h.arc>>

Job(cmd, session_id, inp, invoked) ==
    [cmd |-> cmd, pc |-> "start", session_id |-> session_id, inp |-> inp,
     handle |-> NoHandle, holds |-> {}, wd |-> None, action |-> NoAction,
     log |-> <<>>, value |-> NewSession(""), ok |-> FALSE, err |-> "",
     invoked |-> invoked, returned |-> 0]

\* A store without a mutex: a command is never kept waiting.
store_lock_never_held(ts) == FALSE

\* Some task holds the MutexGuard of the session store.
store_lock_held(ts) == \E u \in DOMAIN ts : StoreLock \in ts[u].holds

\* Some task holds the MutexGuard of one of a session's two mutexes.
lock_held(ts, lock) == \E u \in DOMAIN ts : lock \in ts[u].holds

\* A dispatch that keeps the store's guard while the action runs (the
\* lookup and execute_action in one scope).
held_through_dispatch(holds) == holds

\* The block around the lookup of execute_agent_action ends: its guard is
\* dropped before execute_action is called.
held_after_lookup(holds) == holds \ {StoreLock}

\* Whether execute_command locks current_directory: only when the command
\* is given and no working_directory is.
reads_current_directory(inp) ==
    /\ inp.action_type = "execute_command"
    /\ HasStr(inp.parameters, "command")
    /\ ~HasStr(inp.parameters, "working_directory")

Returns(job, n) == [job EXCEPT !.pc = "done", !.holds = {}, !.returned = n]

\* A command is invoked.
InvokeCommand(t, cmd, session_id, inp) ==
    /\ t \notin DOMAIN tasks
    /\ collab' = Append(collab, Sys("invoke", cmd))
    /\ tasks' = Insert(tasks, t, Job(cmd, session_id, inp, Len(collab')))
    /\ UNCHANGED <<agent_sessions, fs, call, ret, events, dispatched, ncalls, stream, db, arcs>>

\* create_or_get_agent_session: agent_sessions.lock() and sessions.get().
\* A session found is cloned and returned; for one not found
\* AgentSession::new and new_session.clone() run, the guard still held.
GetOrNew(t) ==
    /\ t \in DOMAIN tasks
    /\ tasks[t].cmd = "create_or_get_agent_session" /\ tasks[t].pc = "start"
    /\ ~store_lock_held(tasks)
    /\ LET id == tasks[t].session_id
       IN  IF id \in DOMAIN agent_sessions
           THEN /\ tasks' = [tasks EXCEPT ![t].pc = "serialize",
                                          ![t].handle = agent_sessions[id]]
                /\ UNCHANGED arcs
           ELSE /\ arcs' = Append(arcs, NewArcs)
                /\ tasks' = [tasks EXCEPT ![t].pc = "insert",
                                          ![t].handle = Handle(id, Len(arcs')),
                                          ![t].holds = {StoreLock}]
    /\ UNCHANGED <<agent_sessions, fs, call, ret, collab, events, dispatched, ncalls, stream, db>>

\* sessions.insert(session_id, new_session) and Ok(session_clone): the
\* guard is dropped as the command returns.  HashMap::insert replaces.
InsertSession(t) ==
    /\ t \in DOMAIN tasks
    /\ tasks[t].pc = "insert"
    /\ agent_sessions' =
         [id \in DOMAIN agent_sessions \cup {tasks[t].session_id} |->
            IF id = tasks[t].session_id THEN tasks[t].handle ELSE agent_sessions[id]]
    /\ tasks' = [tasks EXCEPT ![t].pc = "serialize", ![t].holds = {}]
    /\ UNCHANGED <<fs, call, ret, collab, events, dispatched, ncalls, stream, db, arcs>>

\* The returned AgentSession is serialized for the caller.
SerializeSession(t) ==
    /\ t \in DOMAIN tasks
    /\ tasks[t].pc = "serialize"
    /\ ~lock_held(tasks, LogLock(tasks[t].handle))
    /\ ~lock_held(tasks, DirLock(tasks[t].handle))
    /\ collab' = Append(collab, Sys("return", tasks[t].cmd))
    /\ tasks' = [tasks EXCEPT ![t] = Returns([@ EXCEPT !.ok = TRUE,
                                                       !.value = serialize(arcs, tasks[t].handle)],
                                             Len(collab'))]
    /\ UNCHANGED <<agent_sessions, fs, call, ret, events, dispatched, ncalls, stream, db, arcs>>

\* execute_agent_action: the block that locks the store, gets the session
\* and clones it.
LookupSession(t) ==
    /\ t \in DOMAIN tasks
    /\ tasks[t].cmd = "execute_agent_action" /\ tasks[t].pc = "start"
    /\ ~store_lock_held(tasks)
    /\ IF tasks[t].session_id \in DOMAIN agent_sessions
       THEN /\ tasks' = [tasks EXCEPT ![t].pc = "handler",
                                      ![t].handle = agent_sessions[tasks[t].session_id],
                                      ![t].holds = held_after_lookup({StoreLock})]
            /\ UNCHANGED collab
       ELSE /\ collab' = Append(collab, Sys("return", tasks[t].cmd))
            /\ tasks' = [tasks EXCEPT ![t] = Returns([@ EXCEPT !.err = "Agent session not found"],
                                                     Len(collab'))]
    /\ UNCHANGED <<agent_sessions, fs, call, ret, events, dispatched, ncalls, stream, db, arcs>>

\* The handler up to its collaborator call: execute_command copies the
\* session's working directory under its mutex.
CopyCurrentDirectory(t) ==
    /\ t \in DOMAIN tasks
    /\ tasks[t].pc = "handler"
    /\ reads_current_directory(tasks[t].inp) => ~lock_held(tasks, DirLock(tasks[t].handle))
    /\ tasks' = [tasks EXCEPT ![t].pc = "in_flight",
                              ![t].wd = IF reads_current_directory(tasks[t].inp)
                                        THEN Some(arcs[tasks[t].handle.arc].current_directory)
                                        ELSE None]
    /\ UNCHANGED <<agent_sessions, fs, call, ret, collab, events, dispatched, ncalls, stream, db, arcs>>

\* The handler's collaborator call (file, process, shell) takes effect and
\* execute_action fills in the action.  A change_directory that found its
\* directory has the session's mutex yet to lock.
SideEffect(t) ==
    /\ t \in DOMAIN tasks
    /\ tasks[t].pc = "in_flight"
    /\ LET inp == tasks[t].inp
           cwd == IF tasks[t].wd.some THEN tasks[t].wd.s ELSE ""
       IN  \E r \in {run_handler(inp.action_type, cwd, fs, inp.parameters, TRUE)} :
              /\ fs' = r.fs
              /\ tasks' = [tasks EXCEPT
                             ![t].pc = IF inp.action_type = "change_directory" /\ r.ok
                                       THEN "set_directory" ELSE "push",
                             ![t].log = r.log,
                             ![t].action = completed_action(inp.action_type, inp.parameters, r)]
    /\ UNCHANGED <<agent_sessions, call, ret, collab, events, dispatched, ncalls, stream, db, arcs>>

\* *current_dir = path.to_string_lossy().to_string(), under the mutex
SetCurrentDirectory(t) ==
    /\ t \in DOMAIN tasks
    /\ tasks[t].pc = "set_directory"
    /\ ~lock_held(tasks, DirLock(tasks[t].handle))
    /\ arcs' = [arcs EXCEPT ![tasks[t].handle.arc].current_directory =
                               tasks[t].inp.parameters["path"].s]
    /\ tasks' = [tasks EXCEPT ![t].pc = "display"]
    /\ UNCHANGED <<agent_sessions, fs, call, ret, collab, events, dispatched, ncalls, stream, db>>

\* dir_display: the mutex is locked again and the directory read for the
\* handler's result.
DisplayDirectory(t) ==
    /\ t \in DOMAIN tasks
    /\ tasks[t].pc = "display"
    /\ ~lock_held(tasks, DirLock(tasks[t].handle))
    /\ tasks' = [tasks EXCEPT
                   ![t].pc = "push",
                   ![t].action =
                      completed_action(@.action_type, @.parameters,
                                       Ok(JStr("Changed directory to "
                                               \o arcs[tasks[t].handle.arc].current_directory),
                                          fs, <<>>))]
    /\ UNCHANGED <<agent_sessions, fs, call, ret, collab, events, dispatched, ncalls, stream, db, arcs>>

\* self.actions.lock(), actions.push(action.clone()), Ok(action)
AppendAction(t) ==
    /\ t \in DOMAIN tasks
    /\ tasks[t].pc = "push"
    /\ ~lock_held(tasks, LogLock(tasks[t].handle))
    /\ arcs' = [arcs EXCEPT ![tasks[t].handle.arc].actions = push_action(@, tasks[t].action)]
    /\ collab' = Append(collab, Sys("return", tasks[t].cmd))
    /\ tasks' = [tasks EXCEPT ![t] = Returns([@ EXCEPT !.ok = TRUE], Len(collab'))]
    /\ UNCHANGED <<agent_sessions, fs, call, ret, events, dispatched, ncalls, stream, db>>

SharedInputs ==
    {Input("change_directory", Path("/etc")),
     Input("change_directory", Path("/nope")),
     Input("execute_command", Cmd("ls")),
     Input("execute_command", Cmd("ls") @@ ("working_directory" :> JStr("/"))),
     Input("write_file", Path("/tmp/a.txt") @@ ("content" :> JStr("bye")))}

NextShared ==
    \/ \E t \in TaskIds :
          InvokeCommand(t, "create_or_get_agent_session", "s1", Input("", EmptyMap))
    \/ \E t \in TaskIds, inp \in SharedInputs :
          InvokeCommand(t, "execute_agent_action", "s1", inp)
    \/ \E t \in TaskIds : GetOrNew(t)
    \/ \E t \in TaskIds : InsertSession(t)
    \/ \E t \in TaskIds : SerializeSession(t)
    \/ \E t \in TaskIds : LookupSession(t)
    \/ \E t \in TaskIds : CopyCurrentDirectory(t)
    \/ \E t \in TaskIds : SideEffect(t)
    \/ \E t \in TaskIds : SetCurrentDirectory(t)
    \/ \E t \in TaskIds : DisplayDirectory(t)
    \/ \E t \in TaskIds : AppendAction(t)

SpecShared == Init /\ [][NextShared]_vars

\* Dispatches on a session that create_or_get_agent_session("s1") has
\* stored.
InitDispatch ==
    /\ agent_sessions = ("s1" :> Handle("s1", 1))
    /\ arcs = <<NewArcs>>
    /\ fs = InitFs
    /\ call = Call("create_or_get_agent_session", "s1", "", EmptyMap, FALSE)
    /\ ret = RetOk(NoAction, NewSession("s1"))
    /\ collab = <<>>
    /\ events = <<>>
    /\ dispatched = [id \in SessionIds |-> <<>>]
    /\ ncalls = 0
    /\ db = EmptyDb
    /\ tasks = NoTasks
    /\ stream = NoStream

DispatchInputs ==
    {Input("change_directory", Path("/etc")),
     Input("change_directory", Path("/tmp")),
     Input("change_directory", Path("/nope")),
     Input("execute_command", Cmd("ls")),
     Input("execute_command", Cmd("ls") @@ ("working_directory" :> JStr("/")))}

NextDispatch ==
    \/ \E t \in TaskIds, inp \in DispatchInputs :
          InvokeCommand(t, "execute_agent_action", "s1", inp)
    \/ \E t \in TaskIds : LookupSession(t)
    \/ \E t \in TaskIds : CopyCurrentDirectory(t)
    \/ \E t \in TaskIds : SideEffect(t)
    \/ \E t \in TaskIds : SetCurrentDirectory(t)
    \/ \E t \in TaskIds : DisplayDirectory(t)
    \/ \E t \in TaskIds : AppendAction(t)

SpecDispatch == InitDispatch /\ [][NextDispatch]_vars

(***************************************************************************)
(* The system commands as steps, and the system as a caller can drive it:  *)
(* the direct commands, and a session's dispatcher on the gated actions.   *)
(***************************************************************************)
\* A system command returns: its value or error, the filesystem it leaves,
\* the calls it made and the events it emitted.
DirectStep(c, r) ==
    /\ ncalls < MaxCalls
    /\ ncalls' = ncalls + 1
    /\ call' = c
    /\ ret' = IF r.res.ok THEN RetOk(NoAction, r.res.val) ELSE RetErr(r.res.err)
    /\ fs' = r.res.fs
    /\ collab' = r.res.log
    /\ events' = r.events
    /\ UNCHANGED <<agent_sessions, dispatched, stream, db, tasks, arcs>>

\* window.emit is reached only by a command asked to request permission.
EmitChoices(request_permission_flag) == IF request_permission_flag THEN BOOLEAN ELSE {TRUE}

RequestPermission(operation, parameters, emit_ok) ==
    \E r \in {request_permission(fs, operation, parameters, emit_ok)} :
        DirectStep(Call("request_permission", "", operation, parameters, FALSE), r)

LaunchApp(app_path, arguments, request_permission_flag, emit_ok, os) ==
    \E r \in {launch_app(fs, app_path, arguments, request_permission_flag, emit_ok, os)} :
        DirectStep(Call("launch_app", "", "", Path(app_path), request_permission_flag), r)

ExecuteCommand(command, working_directory, request_permission_flag, emit_ok, os) ==
    \E r \in {execute_command_direct(fs, command, working_directory,
                                     request_permission_flag, emit_ok, os)} :
        DirectStep(Call("execute_command", "", "", Cmd(command), request_permission_flag), r)

PerformFileSystemOperation(operation_type, source, destination, recursive, request_permission_flag, emit_ok) ==
    \E r \in {perform_file_system_operation(fs, operation_type, source, destination,
                                            recursive, request_permission_flag, emit_ok)} :
        DirectStep(Call("perform_file_system_operation", "", operation_type,
                        FileOp(operation_type, source), request_permission_flag), r)

TerminateProcess(pid, request_permission_flag, emit_ok, os) ==
    \E r \in {terminate_process(fs, pid, request_permission_flag, emit_ok, os)} :
        DirectStep(Call("terminate_process", "", "", Pid(JNum(pid)), request_permission_flag), r)

\* What the direct commands are driven with.
DirectCommands == {"ls", "Sudo reboot", "rm -rf /"}
DirectFileOps ==
    {[operation_type |-> "delete", source |-> "/tmp/a.txt", destination |-> None, recursive |-> FALSE],
     [operation_type |-> "delete", source |-> "/etc/hosts", destination |-> None, recursive |-> FALSE],
     [operation_type |-> "delete", source |-> "/etc", destination |-> None, recursive |-> TRUE],
     [operation_type |-> "copy", source |-> "/etc/hosts", destination |-> Some("/tmp/b.png"),
      recursive |-> FALSE],
     [operation_type |-> "chmod", source |-> "/tmp/a.txt", destination |-> None, recursive |-> FALSE]}
DirectPids == {1234}
DirectApps == {"/tmp/a.txt", "/nope"}

\* The dispatches that wrap a privileged operation.
GatedInputs ==
    {inp \in ActionInputs : inp.action_type \in {"execute_command", "file_operation", "kill_process"}}

NextSystem ==
    \/ CreateOrGetAgentSession("s1")
    \/ \E inp \in GatedInputs : \E os \in OsChoices(inp) : ExecuteAgentAction("s1", inp, os)
    \/ \E command \in DirectCommands, rp \in BOOLEAN, os \in BOOLEAN : \E emit_ok \in EmitChoices(rp) :
          ExecuteCommand(command, None, rp, emit_ok, os)
    \/ \E op \in DirectFileOps, rp \in BOOLEAN : \E emit_ok \in EmitChoices(rp) :
          PerformFileSystemOperation(op.operation_type, op.source, op.destination,
                                     op.recursive, rp, emit_ok)
    \/ \E pid \in DirectPids, rp \in BOOLEAN, os \in BOOLEAN : \E emit_ok \in EmitChoices(rp) :
          TerminateProcess(pid, rp, emit_ok, os)
    \/ \E app_path \in DirectApps, rp \in BOOLEAN, os \in BOOLEAN : \E emit_ok \in EmitChoices(rp) :
          LaunchApp(app_path, None, rp, emit_ok, os)

SpecSystem == Init /\ [][NextSystem]_vars

(***************************************************************************)
(* The permission policy as request_permission applies it.                 *)
(***************************************************************************)
UpperLowerOf(c) == {c, to_uppercase(c), to_lowercase(c)}
PolicyCommands ==
    UNION {UpperLowerOf(c) :
             c \in {"ls", "echo hi", "rm -r x", "su do", "rm -rf /", "del /F x", "cat Format.txt",
                    "fdisk -l", "dd if=a of=b", "Sudo reboot", "net user Administrator",
                    "reg query Registry", "RegEdit", "mkfs /dev/sda"}}

\* Parameter maps for kill_process: a pid of every JSON type, and none.
KillParams ==
    {Pid(v) : v \in {JNum(1234), JNum(1), JNum(0 - 1), JStr("1234"), JBool(TRUE), JNull,
                     JArr(<<JNum(1234)>>), JObj("{}")}}
    \cup {EmptyMap, Path("/tmp/a.txt")}

PolicyRequests ==
    {[operation |-> "execute_command", parameters |-> Cmd(c)] : c \in PolicyCommands}
    \cup {[operation |-> "execute_command", parameters |-> m] :
            m \in {EmptyMap, "command" :> JNum(7)}}
    \cup {[operation |-> "kill_process", parameters |-> m] : m \in KillParams}
    \cup {[operation |-> op, parameters |-> m] :
            op \in {"delete_file", "delete_directory"},
            m \in {Path("/tmp/a.txt"), Path("/etc/hosts"), Path("/etcetera"), Path("/home/etc"),
                   Path("C:\\Windows\\win.ini"), EmptyMap}}
    \cup {[operation |-> "launch_app", parameters |-> m] : m \in {Path("/tmp/a.txt"), EmptyMap}}
    \cup {[operation |-> op, parameters |-> EmptyMap] : op \in {"read_file", "teleport"}}

NextPolicy ==
    \E req \in PolicyRequests, emit_ok \in BOOLEAN :
        RequestPermission(req.operation, req.parameters, emit_ok)

SpecPolicy == Init /\ [][NextPolicy]_vars

(***************************************************************************)
(* A streaming completion, step by step.  The native stream takes one step *)
(* per transport chunk (the await of stream.next()), the simulated one a   *)
(* step per word (the sleep between words).                                *)
(***************************************************************************)
sysvars == <<agent_sessions, fs, call, ret, collab, events, dispatched, ncalls, db, tasks, arcs>>

Returned(st, result) == [st EXCEPT !.pc = "returned", !.result = result]
StreamOk(text) == [ok |-> TRUE, val |-> text, err |-> ""]
StreamErr(err) == [ok |-> FALSE, val |-> "", err |-> err]

(***************************************************************************)
(* send_chat_completion (database.rs): the answer of the server, mapped to *)
(* text by the provider's arm.                                             *)
(***************************************************************************)
Providers == {"OpenAI", "Anthropic", "Google", "Ollama", "Custom"}

\* The bodies a server answers with: each provider's completion carrying a
\* text, a completion without choices, an error object, and no JSON at all.
ChatCompletionBody(text) ==
    "{\"choices\":[{\"message\":{\"role\":\"assistant\",\"content\":\"" \o text \o "\"}}]}"
AnthropicBody(text) == "{\"content\":[{\"type\":\"text\",\"text\":\"" \o text \o "\"}]}"
GoogleBody(text) ==
    "{\"candidates\":[{\"content\":{\"parts\":[{\"text\":\"" \o text \o "\"}]}}]}"
OllamaBody(text) == "{\"message\":{\"role\":\"assistant\",\"content\":\"" \o text \o "\"}}"
EmptyChoicesBody == "{\"choices\":[]}"
ErrorBody == "{\"error\":\"boom\"}"
HtmlBody == "<html>502 Bad Gateway</html>"
CompletionTexts == {"hello", "a b", "", " \n", "a  b\n", " two\twords"}

BodyOf(provider, text) ==
    CASE provider = "Anthropic" -> AnthropicBody(text)
      [] provider = "Google" -> GoogleBody(text)
      [] provider = "Ollama" -> OllamaBody(text)
      [] OTHER -> ChatCompletionBody(text)

\* serde_json accepts the body as a JSON value.
is_json(body) ==
    \/ body \in {EmptyChoicesBody, ErrorBody}
    \/ \E p \in Providers, t \in CompletionTexts : body = BodyOf(p, t)

\* serde_json::from_str::<ChatCompletionResponse>: the contents of the
\* choices, or serde's error.
chat_completion_from_str(body) ==
    IF \E t \in CompletionTexts : body = ChatCompletionBody(t)
    THEN [ok |-> TRUE, choices |-> <<CHOOSE t \in CompletionTexts : body = ChatCompletionBody(t)>>,
          error |-> ""]
    ELSE IF body = EmptyChoicesBody THEN [ok |-> TRUE, choices |-> <<>>, error |-> ""]
    ELSE IF is_json(body)
    THEN [ok |-> FALSE, choices |-> <<>>,
          error |-> "missing field 'choices' at line 1 column " \o NatToString(Len(body))]
    ELSE [ok |-> FALSE, choices |-> <<>>, error |-> "expected value at line 1 column 1"]

\* response_json[..]..as_str() along the provider's path: content[0].text,
\* candidates[0].content.parts[0].text, message.content
path_as_str(provider, body) ==
    IF \E t \in CompletionTexts : body = BodyOf(provider, t)
    THEN Some(CHOOSE t \in CompletionTexts : body = BodyOf(provider, t))
    ELSE None

\* "API request failed: {}" with the provider's name in front
RequestFailed(provider) ==
    (IF provider = "OpenAI" THEN "" ELSE provider \o " ") \o "API request failed: "

\* The text of a 2xx answer, by the provider's arm.
completion_of_body(provider, body) ==
    IF provider \in {"OpenAI", "Custom"}
    THEN LET completion == chat_completion_from_str(body)
             api == IF provider = "Custom" THEN "custom API" ELSE "API"
         IN  IF completion.ok
             THEN IF completion.choices # <<>> THEN StreamOk(completion.choices[1])
                  ELSE StreamErr("No response choices from " \o api)
             ELSE StreamErr("Failed to parse " \o api \o " response: " \o completion.error
                            \o ". Response: " \o body)
    ELSE IF ~is_json(body) THEN StreamErr("error decoding response body")
    ELSE LET content == path_as_str(provider, body)
         IN  IF content.some THEN StreamOk(content.s)
             ELSE StreamErr("Invalid response format from " \o provider \o " API")

\* An arm that reads the body whatever the status is.
send_chat_completion_any_status(provider, base_url, sent, status_ok, body) ==
    IF provider = "Custom" /\ ~base_url
    THEN StreamErr("Base URL is required for custom providers")
    ELSE IF ~sent THEN StreamErr("error sending request")
    ELSE completion_of_body(provider, body)

\* Database::send_chat_completion: base_url says whether the configuration
\* has one, sent whether the request got an answer.
send_chat_completion(provider, base_url, sent, status_ok, body) ==
    IF provider = "Custom" /\ ~base_url
    THEN StreamErr("Base URL is required for custom providers")
    ELSE IF ~sent THEN StreamErr("error sending request")
    ELSE IF ~status_ok THEN StreamErr(RequestFailed(provider) \o body)
    ELSE completion_of_body(provider, body)

Finished(st, reply) == [st EXCEPT !.pc = "finished", !.reply = reply]

\* send_ai_message_streaming up to the call of the database: the chat and
\* its configuration are read and the user's message stored (setup_ok says
\* whether that went well), then streaming_start is emitted with `?`.
StartStreaming(setup_ok, emit_ok) ==
    /\ stream.pc = "command"
    /\ stream.streaming
    /\ stream' =
         IF ~setup_ok THEN Finished(stream, StreamErr("Chat not found"))
         ELSE LET started == [stream EXCEPT !.emits =
                                 <<StreamEvent("streaming_start", "", "", "", emit_ok)>>]
              IN  IF emit_ok THEN [started EXCEPT !.pc = "call"]
                  ELSE Finished(started, StreamErr(EmitError))
    /\ UNCHANGED sysvars

\* send_ai_message up to the return of send_chat_completion
SendAiMessage(setup_ok) ==
    /\ stream.pc = "command"
    /\ ~stream.streaming
    /\ stream' =
         IF ~setup_ok THEN Finished(stream, StreamErr("Chat not found"))
         ELSE Returned(stream, send_chat_completion(stream.provider, stream.base_url,
                                                    stream.sent, stream.status_ok, stream.body))
    /\ UNCHANGED sysvars

\* The request is sent and the status read; every provider but OpenAI goes
\* through send_chat_completion and splits its text into words.
SendRequest ==
    /\ stream.pc = "call"
    /\ stream' =
         IF stream.provider = "OpenAI"
         THEN IF ~stream.sent THEN Returned(stream, StreamErr("error sending request"))
              ELSE IF stream.status_ok THEN [stream EXCEPT !.pc = "reading"]
              ELSE Returned(stream, StreamErr("API request failed: " \o stream.body))
         ELSE LET completion == send_chat_completion(stream.provider, stream.base_url,
                                                     stream.sent, stream.status_ok, stream.body)
              IN  IF completion.ok
                  THEN [stream EXCEPT !.pc = "words",
                                      !.completion = completion,
                                      !.words = split_whitespace(completion.val)]
                  ELSE Returned(stream, completion)
    /\ UNCHANGED sysvars

\* The command after the database's call has returned: an error is handed
\* on; the assistant's message is stored (db_ok) and, when streaming,
\* final_message_created emitted with `?`.
FinishCommand(db_ok, emit_ok) ==
    /\ stream.pc = "returned"
    /\ stream' =
         IF ~stream.result.ok THEN Finished(stream, stream.result)
         ELSE IF ~db_ok THEN Finished(stream, StreamErr(SqlxError))
         ELSE IF ~stream.streaming THEN Finished(stream, StreamOk(stream.result.val))
         ELSE LET told == [stream EXCEPT !.emits =
                              Append(@, StreamEvent("final_message_created", "", "",
                                                    stream.result.val, emit_ok))]
              IN  IF emit_ok THEN Finished(told, StreamOk("assistant_msg.id"))
                  ELSE Finished(told, StreamErr(EmitError))
    /\ UNCHANGED sysvars

\* stream.next() yields a transport chunk, or the error `chunk?` returns.
ReadChunk(emit_ok) ==
    /\ stream.pc = "reading"
    /\ stream.wire # <<>>
    /\ LET chunk == Head(stream.wire)
           r == process_lines(lines(chunk.bytes), 1, stream.full_response, stream.emits, emit_ok)
       IN  stream' =
             IF chunk.err
             THEN Returned([stream EXCEPT !.wire = Tail(@)],
                           StreamErr("error decoding response body"))
             ELSE [stream EXCEPT !.wire = Tail(@),
                                 !.full_response = r.full_response,
                                 !.emits = r.emits,
                                 !.pc = IF r.panic THEN "panicked" ELSE @]
    /\ UNCHANGED sysvars

\* stream.next() yields None: the completion event, and Ok(full_response).
EndOfStream(emit_ok) ==
    /\ stream.pc = "reading"
    /\ stream.wire = <<>>
    /\ stream' =
         Returned([stream EXCEPT !.emits =
                      Append(@, StreamEvent("streaming_complete", "", "",
                                            stream.full_response, emit_ok))],
                  StreamOk(stream.full_response))
    /\ UNCHANGED sysvars

\* One turn of the loop over the words.
EmitWord(emit_ok) ==
    /\ stream.pc = "words"
    /\ stream.i < Len(stream.words)
    /\ LET word == stream.words[stream.i + 1]
           current_content ==
               stream.current_content \o word
                   \o (IF stream.i < Len(stream.words) - 1 THEN " " ELSE "")
       IN  stream' =
             [stream EXCEPT !.i = @ + 1,
                            !.current_content = current_content,
                            !.emits = Append(@, StreamEvent("streaming_chunk", word \o " ",
                                                            current_content, "", emit_ok))]
    /\ UNCHANGED sysvars

\* After the last word: the completion event, and Ok(response).
WordsDone(emit_ok) ==
    /\ stream.pc = "words"
    /\ stream.i = Len(stream.words)
    /\ stream' =
         Returned([stream EXCEPT !.emits =
                      Append(@, StreamEvent("streaming_complete", "", "",
                                            stream.completion.val, emit_ok))],
                  StreamOk(stream.completion.val))
    /\ UNCHANGED sysvars

\* What the server sends.
Bytes(b) == [err |-> FALSE, bytes |-> b]
TransportError == [err |-> TRUE, bytes |-> ""]
DataLine(frame) == "data: " \o frame \o "\n\n"
DoneLine == "data: [DONE]\n\n"
Wires ==
    {<<>>,
     <<Bytes(DataLine(DeltaFrame("Hel"))), Bytes(DataLine(DeltaFrame("lo")) \o DoneLine)>>,
     <<Bytes(DataLine(DeltaFrame("Hel")) \o DoneLine \o DataLine(DeltaFrame("x"))),
       Bytes(DataLine(DeltaFrame("lo")))>>,
     <<Bytes(SubSeq(DataLine(DeltaFrame("Hel")), 1, 24)),
       Bytes(SubSeq(DataLine(DeltaFrame("Hel")), 25, Len(DataLine(DeltaFrame("Hel"))))),
       Bytes(DataLine(DeltaFrame("lo")))>>,
     <<Bytes(DataLine(RoleFrame) \o DataLine(DeltaFrame("Hel")))>>,
     <<Bytes(DataLine(DeltaFrame("Hel"))), Bytes(DataLine(StopFrame) \o DoneLine)>>,
     <<Bytes(DataLine(DeltaFrame("Hel"))), TransportError, Bytes(DataLine(DeltaFrame("lo")))>>,
     <<Bytes(": ping\r\n" \o "data: " \o DeltaFrame("x") \o "\r\n\r\n"
             \o "data: " \o UsageFrame \o "\n" \o "data: " \o NullDeltaFrame \o "\n"
             \o "data:" \o DeltaFrame("lo") \o "\n" \o "data: " \o DeltaFrame(""))>>}

\* What the server answers a provider's request with: a completion with
\* each text, then, with either status, an error object, no JSON, a
\* completion without choices, a completion in the provider's own and in
\* another provider's shape.
OtherShape(provider) ==
    IF provider \in {"OpenAI", "Custom"} THEN OllamaBody("hello") ELSE ChatCompletionBody("hello")
Answer(sent, status_ok, body) == [sent |-> sent, status_ok |-> status_ok, body |-> body]
Answers(provider) ==
    {Answer(TRUE, TRUE, BodyOf(provider, t)) : t \in CompletionTexts}
    \cup {Answer(TRUE, status_ok, body) :
            status_ok \in BOOLEAN,
            body \in {ErrorBody, HtmlBody, EmptyChoicesBody, BodyOf(provider, "hello"),
                      OtherShape(provider)}}
    \cup {Answer(FALSE, FALSE, "")}

Completion(provider, streaming, base_url, answer) ==
    [StreamCall(provider, answer.status_ok, answer.body, <<>>, NoResult)
        EXCEPT !.streaming = streaming, !.base_url = base_url, !.sent = answer.sent]

StreamCalls ==
    {StreamCall("OpenAI", TRUE, "", wire, NoResult) : wire \in Wires}
    \cup {StreamCall("OpenAI", FALSE, body, <<Bytes(DataLine(DeltaFrame("x")))>>, NoResult) :
            body \in {ErrorBody, HtmlBody}}
    \cup {Completion("OpenAI", TRUE, TRUE, Answer(FALSE, FALSE, ""))}
    \cup UNION {{Completion(provider, TRUE, TRUE, answer) : answer \in Answers(provider)} :
                  provider \in Providers \ {"OpenAI"}}
    \cup UNION {{Completion(provider, FALSE, TRUE, answer) : answer \in Answers(provider)} :
                  provider \in Providers}
    \cup {Completion("Custom", streaming, FALSE, Answer(FALSE, FALSE, "")) :
            streaming \in BOOLEAN}

InitStream == InitSystem /\ stream \in StreamCalls

NextStream ==
    \/ \E setup_ok, emit_ok \in BOOLEAN : StartStreaming(setup_ok, emit_ok)
    \/ \E setup_ok \in BOOLEAN : SendAiMessage(setup_ok)
    \/ SendRequest
    \/ \E emit_ok \in BOOLEAN : ReadChunk(emit_ok)
    \/ \E emit_ok \in BOOLEAN : EndOfStream(emit_ok)
    \/ \E emit_ok \in BOOLEAN : EmitWord(emit_ok)
    \/ \E emit_ok \in BOOLEAN : WordsDone(emit_ok)
    \/ \E db_ok, emit_ok \in BOOLEAN : FinishCommand(db_ok, emit_ok)

SpecStream == InitStream /\ [][NextStream]_vars

(***************************************************************************)
(* Properties of the session dispatcher.                                   *)
(***************************************************************************)
\* The command invoked last was a dispatch that reached execute_action.
Dispatched == call.cmd = "execute_agent_action" /\ ret.ok
DispatchedType(t) == Dispatched /\ call.operation = t
\* The audit log of the session the last command named
LastLog == agent_sessions[call.session_id].actions
\* The last command's action is the last entry of its session's audit log.
Logged == Len(LastLog) > 0 /\ LastLog[Len(LastLog)] = ret.action
\* The last command called the collaborator (or OS facility) named op.
Calls(op) == \E i \in 1..Len(collab) : collab[i].op = op

\* C1: after any sequence of execute_action calls against a session, the
\* session's audit log has as many entries as there were calls, and its i-th
\* entry has the action type and the parameters of the i-th call.
C1_AuditLogFollowsCalls ==
    \A id \in DOMAIN agent_sessions :
        LET log == agent_sessions[id].actions
        IN  /\ Len(log) = Len(dispatched[id])
            /\ \A i \in 1..Len(log) :
                  /\ log[i].action_type = dispatched[id][i].action_type
                  /\ log[i].parameters = dispatched[id][i].parameters

\* A session whose log holds a failed action followed by a successful one.
C1_Witness ==
    \E id \in DOMAIN agent_sessions :
        LET log == agent_sessions[id].actions
        IN  Len(log) >= 2 /\ ~log[1].success /\ log[2].success

\* C10 as stated: a dispatch of an action type that names no handler
\* invokes no handler and no collaborator, returns a failed action whose
\* error message contains "unknown action type", and logs that action.
C10_UnknownTypeLowerCase ==
    (Dispatched /\ call.operation \notin Handlers) =>
        /\ collab = <<>>
        /\ ~ret.action.success
        /\ ret.action.error_message.some
        /\ contains(ret.action.error_message.s, "unknown action type")
        /\ Logged

\* C10 as amended: the error message is "Unknown action type: " followed by
\* the action type; no handler and no collaborator is invoked, the action
\* has success=false and is the last entry of the session's audit log.
C10_UnknownTypeFails ==
    (Dispatched /\ call.operation \notin Handlers) =>
        /\ collab = <<>>
        /\ ~ret.action.success
        /\ ret.action.error_message = Some("Unknown action type: " \o call.operation)
        /\ Logged

\* "teleport" was dispatched, failed and was logged.
C10_Witness ==
    /\ DispatchedType("teleport")
    /\ ~ret.action.success
    /\ Logged

\* C3: a dispatch of execute_command with a command the policy classifies as
\* Dangerous never reaches the shell collaborator; it returns a failed
\* action whose error message says explicit permission is required, and
\* that action is appended to the session's audit log.
C3_DangerousCommandBlocked ==
    (/\ DispatchedType("execute_command")
     /\ HasStr(call.parameters, "command")
     /\ check_permission_level("execute_command", call.parameters).level = Dangerous) =>
        /\ ~Calls("execute_terminal_command")
        /\ ~Calls("sh -c")
        /\ ~ret.action.success
        /\ ret.action.error_message =
              Some("Command requires explicit user permission: " \o call.parameters["command"].s)
        /\ Logged

\* "Sudo reboot", which only the policy stops, was dispatched and refused.
C3_Witness ==
    /\ DispatchedType("execute_command")
    /\ call.parameters = Cmd("Sudo reboot")
    /\ ~ret.action.success
    /\ Logged

\* The tiers the policy gives kill_process over those parameter maps
KillTiers == {check_permission_level("kill_process", params).level : params \in KillParams}

\* C5: check_permission_level("kill_process", params) is Dangerous for every
\* parameter map, whatever the JSON type of pid and also without a pid; and
\* a dispatch of kill_process never calls the OS kill collaborator.
C5_KillAlwaysDangerous ==
    /\ KillTiers = {Dangerous}
    /\ DispatchedType("kill_process") =>
          /\ ~Calls("kill_process")
          /\ ~Calls("kill -9")
          /\ ~ret.action.success
          /\ Logged

\* kill_process was dispatched with a well-formed pid and refused.
C5_Witness ==
    /\ DispatchedType("kill_process")
    /\ call.parameters = Pid(JNum(1234))
    /\ ret.action.error_message =
          Some("Killing process requires explicit user permission: PID 1234")
    /\ ~Calls("kill_process")

\* C4 as stated: a dispatch of file_operation with operation_type "delete"
\* whose source lies under a system directory prefix ends as a failed
\* action, and the delete collaborator is not called.
C4_SystemDeleteBlocked ==
    (/\ DispatchedType("file_operation")
     /\ HasStr(call.parameters, "operation_type")
     /\ call.parameters["operation_type"].s = "delete"
     /\ HasStr(call.parameters, "source")
     /\ is_system(call.parameters["source"].s)) =>
        /\ ~Calls("perform_file_operation")
        /\ ~ret.action.success

\* The last command was a successful write_file dispatch, and the step is a
\* dispatch of read_file on the same session and the same path.
ReadAfterWrite ==
    /\ DispatchedType("write_file")
    /\ ret.action.success
    /\ call'.cmd = "execute_agent_action"
    /\ ret'.ok
    /\ call'.operation = "read_file"
    /\ call'.session_id = call.session_id
    /\ HasStr(call'.parameters, "path")
    /\ call'.parameters["path"].s = call.parameters["path"].s

\* A file at path p holding c is refused by the reader as binary: p has one
\* of the binary extensions (in any letter case), or c is at most 8192 bytes
\* long and has a zero byte among its first 512.
TakenForBinary(p, c) ==
    \/ /\ extension(p).some
       /\ \E i \in 1..Len(binary_extensions) :
             binary_extensions[i] = to_lowercase(extension(p).s)
    \/ /\ Len(c) <= LargeFileLen
       /\ \E i \in 1..Min(SniffLen, Len(c)) : CharAt(c, i) = NUL

Asked(op) == call.cmd = "request_permission" /\ call.operation = op /\ ret.ok

\* The denylist as the documentation gives it
DocumentedDenylist ==
    {"rm -rf", "del /f", "format", "fdisk", "dd if=", "sudo", "admin", "registry", "regedit"}
Denylisted(cmd) == \E p \in DocumentedDenylist : contains(to_lowercase(cmd), p)

C2_NoDangerousEffect ==
    \A i \in 1..Len(collab) :
        /\ collab[i].op = "sh -c" =>
              check_permission_level("execute_command", Cmd(collab[i].arg)).level # Dangerous
        /\ collab[i].op = "kill -9" =>
              check_permission_level("kill_process", Pid(JStr(collab[i].arg))).level # Dangerous
        /\ collab[i].op \in {"fs::remove_file", "fs::remove_dir", "fs::remove_dir_all"} =>
              check_permission_level("delete_file", Path(collab[i].arg)).level # Dangerous

(***************************************************************************)
(* Properties of streaming.                                                *)
(***************************************************************************)
\* The chunk fields of the streaming_chunk events of es, concatenated
RECURSIVE ChunksOf(_)
ChunksOf(es) ==
    IF es = <<>> THEN ""
    ELSE (IF Head(es).name = "streaming_chunk" THEN Head(es).chunk ELSE "") \o ChunksOf(Tail(es))

\* C8 as stated: when a streaming completion has completed, native or
\* simulated, the chunk fields of its streaming_chunk events, concatenated
\* in the order of emission, equal the content of its streaming_complete
\* event and the text the call returned.
C8_ChunksRebuildContent ==
    (stream.streaming /\ stream.pc = "returned" /\ stream.result.ok) =>
        LET last == stream.emits[Len(stream.emits)]
        IN  /\ last.name = "streaming_complete"
            /\ ChunksOf(stream.emits) = last.content
            /\ ChunksOf(stream.emits) = stream.result.val

(***************************************************************************)
(* The working directory of a session.                                     *)
(***************************************************************************)
\* The step is a dispatch of change_directory against session id.
ChangesDirectory(id) ==
    /\ call'.cmd = "execute_agent_action"
    /\ call'.session_id = id
    /\ call'.operation = "change_directory"

\* C11: a dispatch of change_directory whose path is missing (or not a
\* string), does not exist or is not a directory returns a failed action and
\* leaves the session's working directory as it was; the working directory
\* of a session changes only in a step that dispatches change_directory
\* against it and succeeds, and it then is the path given.
C11_WorkingDirectoryFrame ==
    [][\A id \in DOMAIN agent_sessions :
          LET before == agent_sessions[id].current_directory
              after == agent_sessions'[id].current_directory
              params == call'.parameters
          IN  /\ after # before =>
                    /\ ChangesDirectory(id)
                    /\ ret'.ok /\ ret'.action.success
                    /\ after = params["path"].s
              /\ (ChangesDirectory(id)
                     /\ (~HasStr(params, "path") \/ ~is_dir(fs, params["path"].s))) =>
                    /\ ret'.ok /\ ~ret'.action.success
                    /\ after = before]_vars

\* A session that had moved to /etc was asked to change to a path that is
\* not a directory: the action failed and the session is still in /etc.
C11_Witness ==
    /\ DispatchedType("change_directory")
    /\ ~ret.action.success
    /\ call.parameters \in {Path("/nope"), Path("/tmp/a.txt"), "path" :> JNum(1)}
    /\ agent_sessions[call.session_id].current_directory = "/etc"

(***************************************************************************)
(* Errors of the dispatcher.                                               *)
(***************************************************************************)
\* C12: execute_agent_action returns an error only when the session id is
\* not in the store, and then no handler or collaborator runs and neither
\* the store (the audit logs in it) nor the filesystem changes; on a session
\* that is in the store it returns Ok with an AgentAction, whose
\* success=false carries the handler's error (missing parameter, unknown
\* action type, permission block, collaborator failure) in error_message.
C12_ErrorsBecomeFailedActions ==
    [][call'.cmd = "execute_agent_action" =>
          IF call'.session_id \in DOMAIN agent_sessions
          THEN /\ ret'.ok
               /\ ret'.action.action_type = call'.operation
               /\ ~ret'.action.success <=> ret'.action.error_message.some
               /\ ~ret'.action.success => ret'.action.result = JAbsent
          ELSE /\ ~ret'.ok
               /\ ret'.err = "Agent session not found"
               /\ collab' = <<>>
               /\ agent_sessions' = agent_sessions
               /\ fs' = fs]_vars

\* The last dispatch named a session that is not in the store and failed
\* outright, after a dispatch on another session had been turned into a
\* failed action that is in that session's log.
C12_Witness ==
    /\ call.cmd = "execute_agent_action"
    /\ ~ret.ok
    /\ call.session_id \notin DOMAIN agent_sessions
    /\ \E id \in DOMAIN agent_sessions :
          /\ Len(agent_sessions[id].actions) = 1
          /\ ~agent_sessions[id].actions[1].success

(***************************************************************************)
(* The session store.                                                      *)
(***************************************************************************)
\* C13: create_or_get_agent_session(id) on an id that is not in the store
\* stores and returns a session with an empty audit log, the process's
\* directory and the thirteen default capabilities; on an id that is in the
\* store it leaves the store as it is and returns the stored session, log
\* and working directory included.  get_agent_session(id) on an id that is
\* not in the store returns "Agent session not found" and stores nothing.
C13_GetOrCreate ==
    [][LET id == call'.session_id
       IN  /\ call'.cmd = "create_or_get_agent_session" =>
                 /\ ret'.ok
                 /\ IF id \in DOMAIN agent_sessions
                    THEN /\ agent_sessions' = agent_sessions
                         /\ ret'.value = agent_sessions[id]
                    ELSE /\ DOMAIN agent_sessions' = DOMAIN agent_sessions \cup {id}
                         /\ \A other \in DOMAIN agent_sessions :
                               agent_sessions'[other] = agent_sessions[other]
                         /\ ret'.value = agent_sessions'[id]
                         /\ ret'.value.id = id
                         /\ ret'.value.actions = <<>>
                         /\ ret'.value.current_directory = ProcessCwd
                         /\ ret'.value.capabilities = capabilities
           /\ (call'.cmd = "get_agent_session" /\ id \notin DOMAIN agent_sessions) =>
                 /\ ret' = RetErr("Agent session not found")
                 /\ agent_sessions' = agent_sessions]_vars

\* A session that has changed directory and has two actions in its log was
\* asked for again and came back with both.
C13_Witness ==
    /\ call.cmd = "create_or_get_agent_session"
    /\ ret.ok
    /\ Len(ret.value.actions) = 2
    /\ ret.value.current_directory = "/etc"
    /\ ret.value = agent_sessions[call.session_id]

\* C19: after create_agent_session(id) the id is in the session store, so
\* that get_agent_session(id) and execute_agent_action(id, ...) find it; and
\* no step removes an id from the store.
C19_CreatedSessionIsStored ==
    [][/\ call'.cmd = "create_agent_session" => call'.session_id \in DOMAIN agent_sessions'
       /\ DOMAIN agent_sessions \subseteq DOMAIN agent_sessions']_vars

(***************************************************************************)
(* The provider configurations.                                            *)
(***************************************************************************)
Defaults == {id \in DOMAIN db.api_configs : db.api_configs[id].is_default}

\* C14: after any sequence of create_api_config, update_api_config and
\* delete_api_config calls made one at a time, with any is_default, whether
\* or not a statement of a call fails, at most one stored configuration has
\* is_default = true.
C14_AtMostOneDefault == Cardinality(Defaults) <= 1

\* A configuration was written as the default while another configuration,
\* stored before it, is there: the one written is the only default.
C14_Witness ==
    /\ call.cmd \in {"create_api_config", "update_api_config"}
    /\ call.parameters["is_default"] = JBool(TRUE)
    /\ ret.ok
    /\ Cardinality(DOMAIN db.api_configs) >= 2
    /\ Defaults = {call.operation}

(***************************************************************************)
(* The audit log under concurrent dispatches.                              *)
(***************************************************************************)
\* The tasks that have returned from execute_action on session id.
Returned_on(id) ==
    {t \in DOMAIN tasks : tasks[t].pc = "done" /\ tasks[t].ok /\ tasks[t].session_id = id}

\* C20: with several execute_agent_action calls in flight on one session,
\* under every interleaving of their steps and with tasks waiting for the
\* log's lock, the session's audit log holds exactly one entry per call that
\* has returned: the entries are, one to one, the actions those calls
\* returned, none lost, repeated or overwritten.
C20_OneEntryPerCall ==
    \A id \in DOMAIN agent_sessions :
        LET log == agent_sessions[id].actions
            done == Returned_on(id)
        IN  /\ Len(log) = Cardinality(done)
            /\ \E f \in [1..Len(log) -> done] :
                  /\ \A i, j \in 1..Len(log) : f[i] = f[j] => i = j
                  /\ \A i \in 1..Len(log) : log[i] = tasks[f[i]].action

\* Three calls on one session have returned, two of them with the same
\* action type and parameters, and the entry of the call invoked third is
\* ahead of the entry of the call invoked first.
C20_Witness ==
    /\ Returned_on("s1") = TaskIds
    /\ tasks[1].inp = tasks[2].inp
    /\ tasks[3].inp # tasks[1].inp
    /\ agent_sessions["s1"].actions[1] = tasks[3].action
    /\ Len(agent_sessions["s1"].actions) = 3

(***************************************************************************)
(* Errors and events of a completion.                                      *)
(***************************************************************************)
\* The request was sent and the server answered it.
Answered == stream.sent /\ (stream.provider = "Custom" => stream.base_url)
\* The database's call (send_chat_completion or its streaming variant) has
\* returned.
CompletionReturned == stream.pc \in {"returned", "finished"} /\ stream.result # NoResult
\* The positions of the events of a name among the call's emits
EventsNamed(name) == {i \in 1..Len(stream.emits) : stream.emits[i].name = name}

\* C16: for every provider, in the non-streaming and in the streaming call,
\* a non-2xx status makes the call return an error whose message contains
\* the response body as received; the call returns no text, reads no stream
\* and no streaming_chunk or streaming_complete event is emitted.
C16_StatusErrorCarriesBody ==
    (Answered /\ ~stream.status_ok) =>
        /\ stream.pc \notin {"reading", "words", "panicked"}
        /\ EventsNamed("streaming_chunk") \cup EventsNamed("streaming_complete") = {}
        /\ CompletionReturned =>
              /\ ~stream.result.ok
              /\ stream.result.val = ""
              /\ contains(stream.result.err, stream.body)
        /\ (CompletionReturned /\ stream.pc = "finished") =>
              /\ ~stream.reply.ok
              /\ contains(stream.reply.err, stream.body)

\* A streaming call to Google was answered with a non-2xx status and a
\* body that has the shape of a completion: the call returned the error.
C16_Witness ==
    /\ stream.streaming
    /\ stream.provider = "Google"
    /\ Answered /\ ~stream.status_ok
    /\ stream.body = GoogleBody("hello")
    /\ stream.pc = "returned"
    /\ stream.result = StreamErr("Google API request failed: " \o GoogleBody("hello"))

\* C17: for every provider, a 2xx answer whose body does not have the
\* provider's shape makes the call return an error that contains the body
\* as received.
C17_ShapeErrorCarriesBody ==
    (/\ Answered /\ stream.status_ok
     /\ ~(stream.provider = "OpenAI" /\ stream.streaming)
     /\ ~\E t \in CompletionTexts : stream.body = BodyOf(stream.provider, t)
     /\ CompletionReturned) =>
        /\ ~stream.result.ok
        /\ contains(stream.result.err, stream.body)

\* C15: the events of a streaming completion come as streaming_start, then
\* streaming_chunk events, then at most one streaming_complete: every chunk
\* is after the start and before the completion; a call that has returned
\* an error has emitted no streaming_complete; and a call that is over
\* after its start has either emitted one streaming_complete or returned
\* an error.
C15_EventOrder ==
    stream.streaming =>
        LET starts == EventsNamed("streaming_start")
            completes == EventsNamed("streaming_complete")
        IN  /\ \A i \in EventsNamed("streaming_chunk") \cup completes : \E j \in starts : j < i
            /\ \A i \in EventsNamed("streaming_chunk") : \A j \in completes : i < j
            /\ Cardinality(completes) <= 1
            /\ (stream.pc = "finished" /\ ~stream.reply.ok) => completes = {}
            /\ (stream.pc \in {"finished", "panicked"} /\ starts # {}) =>
                  \/ Cardinality(completes) = 1
                  \/ stream.pc = "finished" /\ ~stream.reply.ok

\* C18: a gated command asked to request permission for an operation that
\* is not Dangerous performs the operation, whether or not the
\* permission_request event could be delivered.
C18_UndeliveredRequestDoesNotAbort ==
    /\ (/\ call.cmd = "execute_command" /\ call.request_permission
        /\ check_permission_level("execute_command", call.parameters).level # Dangerous) =>
           Calls("execute_terminal_command")
    /\ (/\ call.cmd = "launch_app" /\ call.request_permission
        /\ check_permission_level("launch_app", call.parameters).level # Dangerous) =>
           Calls("launch_application")

(***************************************************************************)
(* Handles of one session.                                                 *)
(***************************************************************************)
\* The tasks that have a handle on the session with this id.
Holders(id) ==
    {t \in DOMAIN tasks : tasks[t].session_id = id /\ tasks[t].handle # NoHandle}

\* The create_or_get_agent_session calls on this id that have returned.
Created(id) ==
    {t \in Holders(id) : tasks[t].cmd = "create_or_get_agent_session" /\ tasks[t].pc = "done"}

\* Two commands were in flight at the same time.
Overlap(t, u) ==
    /\ tasks[t].invoked < tasks[u].returned \/ tasks[u].pc # "done"
    /\ tasks[u].invoked < tasks[t].returned \/ tasks[t].pc # "done"

\* C21: however create_or_get_agent_session calls on one id interleave, the
\* id gets one session: all handles on the id point to the same audit log
\* and working directory, which are the ones of the entry in the store, so
\* every handle and the store show the same actions and directory, and
\* every action a dispatch on the id has returned is in that log.
C21_OneSessionPerId ==
    \A id \in SessionIds :
        /\ \A t, u \in Holders(id) : tasks[t].handle = tasks[u].handle
        /\ \A t \in Holders(id) :
              tasks[t].pc # "insert" =>
                 /\ id \in DOMAIN agent_sessions
                 /\ serialize(arcs, tasks[t].handle) = serialize(arcs, agent_sessions[id])
        /\ \A t \in Holders(id) :
              (tasks[t].cmd = "execute_agent_action" /\ tasks[t].pc = "done") =>
                 \A u \in Holders(id) :
                    \E i \in 1..Len(serialize(arcs, tasks[u].handle).actions) :
                       serialize(arcs, tasks[u].handle).actions[i] = tasks[t].action

\* C21 witness: two create_or_get_agent_session calls on an id that was
\* absent overlapped and returned, and a dispatch on the id has changed the
\* directory since.
C21_Witness ==
    \E t, u \in Created("s1") :
        /\ t # u /\ Overlap(t, u)
        /\ \E v \in Holders("s1") :
              /\ tasks[v].cmd = "execute_agent_action" /\ tasks[v].pc = "done"
              /\ tasks[v].action.success
              /\ tasks[v].inp.action_type = "change_directory"
              /\ tasks[v].invoked > tasks[t].returned
              /\ tasks[v].invoked > tasks[u].returned
        /\ arcs[tasks[t].handle.arc].current_directory = "/etc"

\* The handler's side effect of this task is in flight.
InFlight(t) == t \in DOMAIN tasks /\ tasks[t].pc = "in_flight"

\* The mutexes the next step of a task locks.
Wants(t) ==
    CASE tasks[t].pc = "start" -> {StoreLock}
      [] tasks[t].pc = "handler" /\ reads_current_directory(tasks[t].inp) ->
            {DirLock(tasks[t].handle)}
      [] tasks[t].pc \in {"set_directory", "display"} -> {DirLock(tasks[t].handle)}
      [] tasks[t].pc = "push" -> {LogLock(tasks[t].handle)}
      [] tasks[t].pc = "serialize" -> {LogLock(tasks[t].handle), DirLock(tasks[t].handle)}
      [] OTHER -> {}

\* C22: while a handler's side effect is in flight its task holds no
\* mutex, neither the store's nor one of the session's, so no mutex another
\* command is about to lock (for a dispatch, a lookup or a creation) is
\* held by it.
C22_NoLockInFlight ==
    \A t \in DOMAIN tasks :
        InFlight(t) =>
            /\ tasks[t].holds = {}
            /\ \A u \in DOMAIN tasks \ {t} : Wants(u) \cap tasks[t].holds = {}

\* C22 witness: while the side effect of one dispatch is in flight, a
\* dispatch on the same session invoked after it has looked the session up
\* and run to its end.
C22_Witness ==
    \E t, u \in DOMAIN tasks :
        /\ InFlight(t)
        /\ tasks[u].cmd = "execute_agent_action" /\ tasks[u].pc = "done" /\ tasks[u].ok
        /\ tasks[u].handle = tasks[t].handle
        /\ tasks[u].invoked > tasks[t].invoked

(***************************************************************************)
(* Where a session's commands run.                                         *)
(***************************************************************************)
\* The directories the shell spawned by this task was started in.
RanIn(t) ==
    {tasks[t].log[i].arg : i \in {j \in 1..Len(tasks[t].log) : tasks[t].log[j].op = "current_dir"}}

Spawned(t) == \E i \in 1..Len(tasks[t].log) : tasks[t].log[i].op = "sh -c"

\* The change_directory dispatches on a session id.
ChangeTasks(id) ==
    {c \in DOMAIN tasks : /\ tasks[c].session_id = id
                          /\ tasks[c].inp.action_type = "change_directory"}

\* The change_directory dispatches that have returned a successful action.
Changed(id) == {c \in ChangeTasks(id) : tasks[c].pc = "done" /\ tasks[c].action.success}

\* c returned before t was invoked.
Before(c, t) == tasks[c].pc = "done" /\ tasks[c].returned < tasks[t].invoked

\* C27: a shell spawned by an execute_command without working_directory is
\* started in the directory of the last change_directory that succeeded on
\* the session id before the command was invoked (every other
\* change_directory on the id having returned before that one was
\* invoked), whichever handle either went through; with a
\* working_directory it is started there, and the session's directory is
\* never one that only an execute_command named.
C27_CommandsRunInSessionDirectory ==
    /\ \A t \in DOMAIN tasks :
          (tasks[t].inp.action_type = "execute_command" /\ Spawned(t)) =>
             IF HasStr(tasks[t].inp.parameters, "working_directory")
             THEN RanIn(t) = {tasks[t].inp.parameters["working_directory"].s}
             ELSE \A c \in Changed(tasks[t].session_id) :
                     (/\ Before(c, t)
                      /\ \A d \in ChangeTasks(tasks[t].session_id) \ {c} : Before(d, c)) =>
                         RanIn(t) = {tasks[c].inp.parameters["path"].s}
    /\ \A id \in DOMAIN agent_sessions :
          \/ arcs[agent_sessions[id].arc].current_directory = ProcessCwd
          \/ \E c \in ChangeTasks(id) :
                /\ tasks[c].pc \in {"display", "push", "done"}
                /\ arcs[agent_sessions[id].arc].current_directory = tasks[c].inp.parameters["path"].s

\* C27 witness: two change_directory dispatches succeeded one after the
\* other on different directories, and a command invoked after both ran in
\* the directory of the second.
C27_Witness ==
    \E t \in DOMAIN tasks : \E c, d \in Changed("s1") :
        /\ tasks[t].inp = Input("execute_command", Cmd("ls"))
        /\ tasks[t].pc = "done" /\ Spawned(t)
        /\ Before(d, c) /\ Before(c, t)
        /\ tasks[d].inp.parameters["path"].s = "/etc"
        /\ tasks[c].inp.parameters["path"].s = "/tmp"
        /\ RanIn(t) = {"/tmp"}

(***************************************************************************)
(* The native stream and its transport.                                    *)
(***************************************************************************)
Native == stream.provider = "OpenAI" /\ stream.streaming
Simulated == stream.provider # "OpenAI" /\ stream.streaming

\* The transport chunks read so far.
Consumed == SubSeq(stream.transport, 1, Len(stream.transport) - Len(stream.wire))

IsDone(line) == line = "data: [DONE]"
HasDone(ls) == \E i \in 1..Len(ls) : IsDone(ls[i])
FirstDone(ls) == CHOOSE i \in 1..Len(ls) : IsDone(ls[i]) /\ \A j \in 1..(i - 1) : ~IsDone(ls[j])

\* The deltas of the data lines among ls, one after the other.
RECURSIVE LineTexts(_)
LineTexts(ls) ==
    IF ls = <<>> THEN ""
    ELSE (IF starts_with(Head(ls), "data: ")
          THEN from_str(SubSeq(Head(ls), 7, Len(Head(ls)))).content
          ELSE "")
         \o LineTexts(Tail(ls))

\* The deltas of the chunks up to the first "data: [DONE]".
RECURSIVE TextUntilDone(_)
TextUntilDone(chunks) ==
    IF chunks = <<>> \/ Head(chunks).err THEN ""
    ELSE LET ls == lines(Head(chunks).bytes)
         IN  IF HasDone(ls) THEN LineTexts(SubSeq(ls, 1, FirstDone(ls) - 1))
             ELSE LineTexts(ls) \o TextUntilDone(Tail(chunks))

DoneRead == \E k \in 1..Len(Consumed) : ~Consumed[k].err /\ HasDone(lines(Consumed[k].bytes))

\* C23: once a frame "data: [DONE]" has been read, the accumulator and the
\* emitted chunks are those of the lines before it: no later line of the
\* same transport chunk or of a later one adds to them.
C23_NothingAfterDone ==
    (Native /\ stream.pc \in {"reading", "returned", "finished"} /\ DoneRead) =>
        /\ stream.full_response = TextUntilDone(Consumed)
        /\ ChunksOf(stream.emits) = TextUntilDone(Consumed)

\* The bytes of a transport, whole.
RECURSIVE AllBytes(_)
AllBytes(chunks) == IF chunks = <<>> THEN "" ELSE Head(chunks).bytes \o AllBytes(Tail(chunks))

\* The chunk fields of the streaming_chunk events, in order.
RECURSIVE ChunkSeq(_)
ChunkSeq(es) ==
    IF es = <<>> THEN <<>>
    ELSE (IF Head(es).name = "streaming_chunk" THEN <<Head(es).chunk>> ELSE <<>>)
         \o ChunkSeq(Tail(es))

\* C24: a native stream that has ended has accumulated the text and emitted
\* the deltas that the same bytes give when they arrive as one transport
\* chunk.
C24_ChunkingDoesNotMatter ==
    (/\ Native /\ stream.pc = "returned" /\ stream.result.ok
     /\ \A k \in 1..Len(stream.transport) : ~stream.transport[k].err) =>
        LET whole == process_lines(lines(AllBytes(stream.transport)), 1, "", <<>>, TRUE)
        IN  ~whole.panic =>
               /\ stream.full_response = whole.full_response
               /\ ChunkSeq(stream.emits) = ChunkSeq(whole.emits)

RECURSIVE JoinWords(_)
JoinWords(ws) ==
    IF ws = <<>> THEN ""
    ELSE IF Len(ws) = 1 THEN ws[1]
    ELSE ws[1] \o " " \o JoinWords(Tail(ws))

\* C25: a simulated stream that has completed has emitted one
\* streaming_chunk per whitespace-separated word of the response, the i-th
\* for the i-th word, and then one streaming_complete; the full_content of
\* the last chunk is the words joined by single spaces and equals the
\* content of the streaming_complete; a response without a word gives no
\* chunk and one streaming_complete.
C25_WordsRebuildResponse ==
    (Simulated /\ stream.pc = "returned" /\ stream.result.ok) =>
        LET ws == split_whitespace(stream.result.val)
            chunks == SelectSeq(stream.emits, LAMBDA e : e.name = "streaming_chunk")
            completes == SelectSeq(stream.emits, LAMBDA e : e.name = "streaming_complete")
        IN  /\ Len(chunks) = Len(ws)
            /\ \A i \in 1..Len(ws) : starts_with(chunks[i].chunk, ws[i])
            /\ Len(completes) = 1
            /\ ws # <<>> =>
                  /\ chunks[Len(chunks)].full_content = JoinWords(ws)
                  /\ chunks[Len(chunks)].full_content = completes[1].content

\* C26: a native stream that fails after it has emitted deltas leaves the
\* emitted chunks as they are, emits no streaming_complete, and returns an
\* error that contains the text accumulated up to the failure.
C26_ErrorCarriesPartialText ==
    (Native /\ stream.pc = "returned" /\ ~stream.result.ok /\ stream.full_response # "") =>
        /\ ChunksOf(stream.emits) = stream.full_response
        /\ EventsNamed("streaming_complete") = {}
        /\ contains(stream.result.err, stream.full_response)

\* C28: when the create_api_config and update_api_config calls in flight
\* have all returned, however their statements interleaved, at most one
\* configuration is marked default.
C28_AtMostOneDefaultWhenDone ==
    (\A t \in DOMAIN tasks : tasks[t].pc = "done") => Cardinality(Defaults) <= 1

(***************************************************************************)
(* The two denylists.                                                      *)
(***************************************************************************)
\* The last dispatch was refused by the shell collaborator's own denylist.
BlockedByCollaborator ==
    /\ call.cmd = "execute_agent_action" /\ call.operation = "execute_command"
    /\ ret.ok /\ Calls("execute_terminal_command")
    /\ ret.action.error_message =
          Some("Command blocked: potentially dangerous operation detected")

\* C29: a command that execute_terminal_command refuses by its denylist is
\* one check_permission_level("execute_command", ..) classifies Dangerous:
\* the collaborator blocks no command the policy classified Moderate.
C29_DenylistsAgree ==
    BlockedByCollaborator =>
        check_permission_level("execute_command", call.parameters).level = Dangerous

(***************************************************************************)
(* The shape of an AgentAction.                                            *)
(***************************************************************************)
WellFormed(a) ==
    /\ a.success <=> (a.result # JAbsent /\ ~a.error_message.some)
    /\ ~a.success <=> (a.result = JAbsent /\ a.error_message.some)

\* C30: every entry of every session's audit log is well formed; a dispatch
\* that returns an action returns a well-formed one and appends exactly it
\* to the log of its session, leaving the entries that were there as they
\* were; every other step leaves every log as it was.
C30_ActionsWellFormed ==
    /\ [](\A id \in DOMAIN agent_sessions :
             \A i \in 1..Len(agent_sessions[id].actions) :
                WellFormed(agent_sessions[id].actions[i]))
    /\ [][\A id \in DOMAIN agent_sessions :
             IF call'.cmd = "execute_agent_action" /\ call'.session_id = id
             THEN /\ ret'.ok /\ WellFormed(ret'.action)
                  /\ agent_sessions'[id].actions =
                        Append(agent_sessions[id].actions, ret'.action)
             ELSE agent_sessions'[id].actions = agent_sessions[id].actions]_vars

\* C30 witness: a session's log holds a successful action and, after it,
\* the failed action the last dispatch returned.
C30_Witness ==
    /\ Dispatched /\ ~ret.action.success
    /\ Len(LastLog) = 2
    /\ LastLog[1].success /\ LastLog[1].result # JAbsent
    /\ LastLog[2] = ret.action
    /\ ret.action.error_message.some /\ ret.action.result = JAbsent

=============================================================================
